---- MODULE Spec2Model ----
(***************************************************************************)
(* TitanInfer: the dynamic batcher, the thread pool, the model handle with *)
(* its inference engine, and the model loader, as state machines.          *)
(*                                                                         *)
(* Floats are modelled by integers (sums and products are exact), NaN by   *)
(* the value NaN below.  A tensor is a record [shape, data] with data the  *)
(* flat row-major buffer.  A fallible call returns a record                *)
(* [ok, t, exc, msg]: exc is the C++ exception type thrown, msg its what().*)
(***************************************************************************)
EXTENDS Integers, Sequences, FiniteSets, TLC

\* ------------------------------------------------------------------ bounds
MaxReq == 3            \* requests submitted to the batcher
MaxBatchCfg == 2       \* BatcherConfig.max_batch_size ranges over 0..MaxBatchCfg
MaxTasks == 3          \* tasks submitted to the thread pool
MaxWorkers == 2        \* the pool is built with 1..MaxWorkers threads
MaxThreads == 2        \* threads that share one ModelHandle
MaxCalls == 2          \* calls made on the handle, over all its threads
MaxWarmup == 1         \* Builder::setWarmupRuns ranges over 0..MaxWarmup
MaxTick == 1           \* a steady_clock interval lasts 0..MaxTick
MaxWaitMs == 1         \* config_.max_wait_ms of the batcher
MaxTime == 2           \* the clock runs from 0 to MaxTime
MaxLayers == 3         \* layers of a model that is saved, loaded or fused
MaxMovers == 3         \* threads that use the two handles a and b
MaxMoveCalls == 1      \* calls each of them makes

\* ------------------------------------------------------------------ state
\* DynamicBatcher (src/include/titaninfer/engine/dynamic_batcher.hpp)
VARIABLES
    max_batch_size,    \* config_.max_batch_size
    b_queue,           \* queue_: the ids of the queued requests, front first
    b_stop,            \* stop_
    b_pc,              \* where the consumer thread is in batcher_loop
    b_batch,           \* the consumer's local vector batch (request ids)
    b_i,               \* the index i of the split loop / of the catch loop
    b_out,             \* batched_output
    b_ex,              \* the exception caught by catch (...), "none" if none
    req,               \* per request: how far its submit call is, and its input
    promise,           \* per request: the shared state of its promise/future
    d_pc,              \* where the thread running ~DynamicBatcher is
    now,               \* steady_clock::now(), in ms
    b_deadline,        \* the consumer's deadline for the batch it collects
    sub_time           \* per request: the time of its submit

\* ThreadPool (src/unnamed/part_010, src/src/engine/thread_pool.cpp)
VARIABLES
    num_threads,       \* workers_.size()
    p_tasks,           \* tasks_: the ids of the queued tasks, front first
    p_stop,            \* stop_
    w_pc,              \* per worker: where it is in the worker loop
    w_task,            \* per worker: the task it has dequeued (0: none)
    task,              \* per task: how far its submit call is
    runs,              \* per task: how many times a worker has started it
    finished,          \* per task: how many times it has run to its end
    pd_pc,             \* where the thread running ~ThreadPool is
    pd_j               \* the worker ~ThreadPool is joining

varsB == <<max_batch_size, b_queue, b_stop, b_pc, b_batch, b_i, b_out, b_ex,
           req, promise, d_pc,
          now, b_deadline, sub_time>>

varsP == <<num_threads, p_tasks, p_stop, w_pc, w_task, task, runs, finished,
           pd_pc, pd_j>>

\* ModelHandle and its InferenceEngine (src/src/model_handle.cpp)
VARIABLES
    builder,           \* the ModelHandle::Builder: path, profiling, warm-up, shape
    disk,              \* the fields of the file "model.titan" on disk
    h_state,           \* "unbuilt", "built" (the handle exists) or "failed"
    h_error,           \* what Builder::build threw
    h_engine,          \* engine_: model, input shape, buffers, profiling, stats
    h_mutex,           \* mutex_: 0 when free, else the thread that holds it
    h_calls,           \* how many calls have been made on the handle
    h_done,            \* history: predicts that returned since the last reset
    thread             \* per thread: the frame of its call on the handle

varsH == <<builder, disk, h_state, h_error, h_engine, h_mutex, h_calls, h_done,
          thread>>

\* Two ModelHandles a and b that are move-assigned to each other
VARIABLES
    mv_mutex,          \* per handle: mutex_, 0 when free, else the holder
    mv_engine,         \* per handle: the model its engine_ owns, 0 for none
    mv_thread          \* per thread: the frame of its call

\* A model that is saved to a file and loaded back, or fused
VARIABLES
    io_pc,             \* what has been done with the model
    io_model,          \* the Sequential: its layers
    io_file,           \* the fields of the file the model was saved to
    io_loaded,         \* what ModelParser::load returned or threw
    io_fused           \* what apply_fusion returned

VARIABLES
    capi,              \* a TitanInferModel_ of the C API and the calls made on it
    conv,              \* a Conv2DLayer::output_shape call: arguments and result
    tensors,           \* the live Tensor objects: data_, size_, shape_
    logger             \* the Logger singleton and the calls in progress on it

vars == <<varsB, varsP, varsH, mv_mutex, mv_engine, mv_thread,
          io_pc, io_model, io_file, io_loaded, io_fused,
          capi, conv, tensors, logger>>

\* ------------------------------------------------------------ tensors
NaN == -99

RECURSIVE Prod(_)
Prod(s) == IF s = <<>> THEN 1 ELSE s[1] * Prod(Tail(s))

RECURSIVE Sum(_)
Sum(s) == IF s = <<>> THEN 0 ELSE s[1] + Sum(Tail(s))

Min(a, b) == IF a < b THEN a ELSE b

Max(a, b) == IF a > b THEN a ELSE b

EmptyTensor == [shape |-> <<>>, data |-> <<>>]

Zeros(n) == [i \in 1..n |-> 0]

Ok(t) == [ok |-> TRUE, t |-> t, exc |-> "none", msg |-> ""]

Throw(exc, msg) == [ok |-> FALSE, t |-> EmptyTensor, exc |-> exc, msg |-> msg]

\* Tensor::validate_shape: the shape constructor rejects an empty shape and
\* any zero dimension.
validate_shape(shape) ==
    /\ shape # <<>>
    /\ \A i \in 1..Len(shape) : shape[i] # 0

\* Tensor::Tensor(shape): zero-initialised, or std::invalid_argument.
TensorOfShape(shape) ==
    IF validate_shape(shape)
    THEN Ok([shape |-> shape, data |-> Zeros(Prod(shape))])
    ELSE Throw("invalid_argument", "Tensor shape invalid")

\* ------------------------------------------------------------- layers
\* A layer is [type, cfg, w, b]; Dense has cfg = <<in, out, has_bias>>,
\* w the out*in weights (row-major, out-major) and b the out biases.
Dense(in, out, has_bias, w, b) ==
    [type |-> "Dense", cfg |-> <<in, out, has_bias>>, w |-> w, b |-> b]

Plain(type) == [type |-> type, cfg |-> <<>>, w |-> <<>>, b |-> <<>>]

\* ops::matvec / the 1-D branch of DenseLayer::forward: y = W x + b.
DenseRow(l, x) ==
    LET in == l.cfg[1]
        out == l.cfg[2]
    IN [j \in 1..out |->
          Sum([k \in 1..in |-> l.w[(j - 1) * in + k] * x[k]])
          + (IF l.cfg[3] = 1 THEN l.b[j] ELSE 0)]

\* Row r (1-based) of a flat buffer whose rows have n elements.
RowOf(data, r, n) == SubSeq(data, (r - 1) * n + 1, r * n)

RECURSIVE Concat(_)
Concat(rows) == IF rows = <<>> THEN <<>> ELSE rows[1] \o Concat(Tail(rows))

DenseLayer_forward(l, x) ==
    LET in == l.cfg[1]
        out == l.cfg[2]
    IN IF Len(x.shape) = 1
       THEN IF x.shape[1] # in
            THEN Throw("invalid_argument", "DenseLayer: expected input size")
            ELSE Ok([shape |-> <<out>>, data |-> DenseRow(l, x.data)])
       ELSE IF Len(x.shape) = 2
       THEN IF x.shape[2] # in
            THEN Throw("invalid_argument", "DenseLayer: expected input features")
            ELSE Ok([shape |-> <<x.shape[1], out>>,
                     data |-> Concat([r \in 1..x.shape[1] |->
                                        DenseRow(l, RowOf(x.data, r, in))])])
       ELSE Throw("invalid_argument", "DenseLayer: expected 1D or 2D input")

DenseLayer_output_shape(l, s) ==
    IF s = <<>>
    THEN [ok |-> FALSE, shape |-> <<>>, exc |-> "invalid_argument"]
    ELSE IF Len(s) = 1 THEN [ok |-> TRUE, shape |-> <<l.cfg[2]>>, exc |-> "none"]
    ELSE IF Len(s) = 2
    THEN [ok |-> TRUE, shape |-> <<s[1], l.cfg[2]>>, exc |-> "none"]
    ELSE [ok |-> FALSE, shape |-> <<>>, exc |-> "invalid_argument"]

\* A ReLU that writes its result as one row of a matrix.
ReluLayer_forwardMutant(x) ==
    Ok([shape |-> <<1>> \o x.shape,
        data |-> [i \in 1..Len(x.data) |-> IF x.data[i] > 0 THEN x.data[i] ELSE 0]])

\* ops::relu: max(0, x) elementwise, any rank.
ReluLayer_forward(x) ==
    Ok([shape |-> x.shape,
        data |-> [i \in 1..Len(x.data) |-> IF x.data[i] > 0 THEN x.data[i] ELSE 0]])

\* ops::softmax: rank >= 3 is rejected.  The normalised exponentials have no
\* integer counterpart; a row is mapped to the indicator of its maxima, which
\* like softmax is row-wise, order-preserving and shift-invariant.
SoftmaxRow(x) ==
    [i \in 1..Len(x) |-> IF \A k \in 1..Len(x) : x[k] <= x[i] THEN 1 ELSE 0]

SoftmaxLayer_forward(x) ==
    IF Len(x.shape) > 2
    THEN Throw("invalid_argument", "softmax supports 1D and 2D tensors only")
    ELSE IF Len(x.shape) = 1
    THEN Ok([shape |-> x.shape, data |-> SoftmaxRow(x.data)])
    ELSE Ok([shape |-> x.shape,
             data |-> Concat([r \in 1..x.shape[1] |->
                                SoftmaxRow(RowOf(x.data, r, x.shape[2]))])])

FlattenLayer_output_shape(s) ==
    IF Len(s) <= 2 THEN s
    ELSE IF Len(s) = 3 THEN <<s[1] * s[2] * s[3]>>
    ELSE <<s[1], Prod(Tail(s))>>

\* FlattenLayer::forward: a pure shape change (memcpy of the data).
FlattenLayer_forward(x) ==
    Ok([shape |-> FlattenLayer_output_shape(x.shape), data |-> x.data])

\* Layer::forward by dynamic type.  Sigmoid and Tanh are elementwise and
\* shape preserving; their integer stand-in is the sign-preserving clamp
\* to [-1, 1] (Tanh) and the step 0/1 (Sigmoid).
Layer_forward(l, x) ==
    CASE l.type = "Dense" -> DenseLayer_forward(l, x)
      [] l.type = "ReLU" -> ReluLayer_forward(x)
      [] l.type = "Softmax" -> SoftmaxLayer_forward(x)
      [] l.type = "Flatten" -> FlattenLayer_forward(x)
      [] l.type = "Sigmoid" ->
           Ok([shape |-> x.shape,
               data |-> [i \in 1..Len(x.data) |-> IF x.data[i] > 0 THEN 1 ELSE 0]])
      [] l.type = "Tanh" ->
           Ok([shape |-> x.shape,
               data |-> [i \in 1..Len(x.data) |->
                           IF x.data[i] > 0 THEN 1
                           ELSE IF x.data[i] < 0 THEN -1 ELSE 0]])

\* Layer::output_shape by dynamic type (the base class returns its argument).
Layer_output_shape(l, s) ==
    CASE l.type = "Dense" -> DenseLayer_output_shape(l, s)
      [] l.type = "Flatten" ->
           [ok |-> TRUE, shape |-> FlattenLayer_output_shape(s), exc |-> "none"]
      [] OTHER -> [ok |-> TRUE, shape |-> s, exc |-> "none"]

\* Sequential::forward: the layers in order through the ping-pong buffers;
\* the first layer that throws ends the call.
RECURSIVE RunLayers(_, _)
RunLayers(layers, x) ==
    IF layers = <<>> THEN Ok(x)
    ELSE LET r == Layer_forward(layers[1], x)
         IN IF r.ok THEN RunLayers(Tail(layers), r.t) ELSE r

Sequential_forward(layers, x) ==
    IF layers = <<>>
    THEN Throw("runtime_error", "Sequential::forward: no layers added")
    ELSE RunLayers(layers, x)


\* ============================================================ DynamicBatcher
Requests == 1..MaxReq

\* input_shape_ of the batcher and the borrowed model: the Dense + ReLU model
\* of the batcher tests, with two input features.
BatcherInputShape == <<2>>

BatcherModel == << Dense(2, 2, 1, <<0, 1, 2, 3>>, <<1, 2>>), Plain("ReLU") >>

\* The tensors a caller submits: samples of the declared input shape.
BatcherInputs ==
    { [shape |-> BatcherInputShape, data |-> d] : d \in {<<0, 1>>, <<1, 0>>} }

NoResult == [st |-> "none", t |-> EmptyTensor, what |-> "none"]

Value(t) == [st |-> "value", t |-> t, what |-> "none"]

Exception(what) == [st |-> "exception", t |-> EmptyTensor, what |-> what]

\* std::terminate has not been called.
Alive == b_pc # "terminated"

\* The batcher leaves the other components alone.
OutsideB == UNCHANGED <<varsP, varsH, mv_mutex, mv_engine, mv_thread,
                      io_pc, io_model, io_file, io_loaded, io_fused,
          capi, conv, tensors, logger>>

InitB ==
    /\ max_batch_size \in 0..MaxBatchCfg
    /\ b_queue = <<>>
    /\ b_stop = FALSE
    /\ b_pc = "top"
    /\ b_batch = <<>>
    /\ b_i = 0
    /\ b_out = EmptyTensor
    /\ b_ex = "none"
    /\ req = [r \in Requests |-> [st |-> "unsent", input |-> EmptyTensor]]
    /\ promise = [r \in Requests |-> NoResult]
    /\ d_pc = "idle"
    /\ now = 0
    /\ b_deadline = 0
    /\ sub_time = [r \in Requests |-> 0]

\* cv_.notify_one() as seen by the only thread that ever waits on cv_.
NotifiedPc(pc) ==
    IF pc = "waiting" THEN "woken"
    ELSE IF pc = "waiting_until" THEN "woken_until"
    ELSE pc

\* The whole queue is moved to the batch, whatever room the batch has.
TakeFrontMutant(q, k) == q

\* queue_.front() followed by queue_.pop(), k times.
TakeFront(q, k) == SubSeq(q, 1, k)

DropFront(q, k) == SubSeq(q, k + 1, Len(q))

\* submit, lines 363-374: under the mutex, a stopped batcher fails the promise,
\* otherwise the request is pushed at the back of the queue.
Submit(r, input) ==
    /\ Alive /\ d_pc # "done"
    /\ req[r].st = "unsent"
    /\ \A q \in Requests : q < r => req[q].st # "unsent"
    /\ IF b_stop
       THEN /\ promise' = [promise EXCEPT ![r] =
                              Exception("DynamicBatcher: submit on stopped batcher")]
            /\ req' = [req EXCEPT ![r] = [st |-> "rejected", input |-> input]]
            /\ UNCHANGED b_queue
       ELSE /\ b_queue' = Append(b_queue, r)
            /\ req' = [req EXCEPT ![r] = [st |-> "pushed", input |-> input]]
            /\ UNCHANGED promise
    /\ sub_time' = [sub_time EXCEPT ![r] = now]
    /\ UNCHANGED <<max_batch_size, b_stop, b_pc, b_batch, b_i, b_out, b_ex, d_pc>>
    /\ UNCHANGED <<now, b_deadline>>
    /\ OutsideB

\* submit, lines 375-377: the notify after the lock is released, then return.
SubmitNotify(r) ==
    /\ Alive
    /\ req[r].st = "pushed"
    /\ req' = [req EXCEPT ![r].st = "accepted"]
    /\ b_pc' = NotifiedPc(b_pc)
    /\ UNCHANGED <<max_batch_size, b_queue, b_stop, b_batch, b_i, b_out, b_ex,
                   promise, d_pc>>
    /\ UNCHANGED <<now, b_deadline, sub_time>>
    /\ OutsideB

\* The while loop of lines 398-413 run under the lock from a batch and a queue
\* until it blocks in wait_until or leaves: requests move from the front of the
\* queue to the back of the batch while the batch is short of max_batch_size.
CollectLoop(batch, queue) ==
    LET room == IF Len(batch) < max_batch_size
                THEN max_batch_size - Len(batch) ELSE 0
        k == Min(room, Len(queue))
        nb == batch \o TakeFront(queue, k)
        nq == DropFront(queue, k)
    IN /\ b_batch' = nb
       /\ b_queue' = nq
       /\ b_pc' = IF Len(nb) < max_batch_size /\ ~b_stop
                  THEN "waiting_until"      \* queue empty, predicate false
                  ELSE "collected"          \* batch full, or stop_ and empty

\* Lines 385-413 entered from the top of the loop or after a wake-up of
\* cv_.wait: the predicate is evaluated under the lock.
C_Wait ==
    /\ b_pc \in {"top", "woken"}
    /\ IF ~(b_stop \/ b_queue # <<>>)
       THEN /\ b_pc' = "waiting"
            /\ UNCHANGED <<b_batch, b_queue, b_deadline>>
       ELSE IF b_stop /\ b_queue = <<>>
       THEN /\ b_pc' = "exited"
            /\ UNCHANGED <<b_batch, b_queue, b_deadline>>
       ELSE /\ b_deadline' = now + MaxWaitMs
            /\ CollectLoop(b_batch, b_queue)
    /\ UNCHANGED <<max_batch_size, b_stop, b_i, b_out, b_ex, req, promise, d_pc>>
    /\ UNCHANGED <<now, sub_time>>
    /\ OutsideB

\* wait_until woken by a notify (or spuriously) before the deadline: with the
\* predicate still false it waits again, otherwise the loop goes on.
C_WokenUntil ==
    /\ b_pc = "woken_until"
    /\ IF ~(b_stop \/ b_queue # <<>>)
       THEN /\ b_pc' = "waiting_until"
            /\ UNCHANGED <<b_batch, b_queue>>
       ELSE CollectLoop(b_batch, b_queue)
    /\ UNCHANGED <<max_batch_size, b_stop, b_i, b_out, b_ex, req, promise, d_pc>>
    /\ UNCHANGED <<now, b_deadline, sub_time>>
    /\ OutsideB

\* wait_until reaching the deadline: it returns the predicate; false leaves
\* the loop with what has been collected (line 410).
C_Timeout ==
    /\ b_pc \in {"waiting_until", "woken_until"}
    /\ IF b_stop \/ b_queue # <<>>
       THEN CollectLoop(b_batch, b_queue)
       ELSE /\ b_pc' = "collected"
            /\ UNCHANGED <<b_batch, b_queue>>
    /\ UNCHANGED <<max_batch_size, b_stop, b_i, b_out, b_ex, req, promise, d_pc>>
    /\ UNCHANGED <<now, b_deadline, sub_time>>
    /\ OutsideB

\* A spurious wake-up of either wait.
C_Spurious ==
    /\ b_pc \in {"waiting", "waiting_until"}
    /\ b_pc' = NotifiedPc(b_pc)
    /\ UNCHANGED <<max_batch_size, b_queue, b_stop, b_batch, b_i, b_out, b_ex,
                   req, promise, d_pc>>
    /\ UNCHANGED <<now, b_deadline, sub_time>>
    /\ OutsideB

\* Lines 416-418: an empty batch starts the next iteration.
C_Dispatch ==
    /\ b_pc = "collected"
    /\ b_pc' = IF b_batch = <<>> THEN "top" ELSE "process"
    /\ UNCHANGED <<max_batch_size, b_queue, b_stop, b_batch, b_i, b_out, b_ex,
                   req, promise, d_pc>>
    /\ UNCHANGED <<now, b_deadline, sub_time>>
    /\ OutsideB

\* Lines 428-443: the inputs of the batch, sample_size elements each, copied
\* one after the other into a tensor of shape [N, ...input_shape_].  The
\* memcpy reads sample_size floats whatever the input's size is: past the
\* end of a shorter input it reads memory that is not the input's, pad here.
StackInputs(batch, pad) ==
    LET sample_size == Prod(BatcherInputShape)
    IN [shape |-> <<Len(batch)>> \o BatcherInputShape,
        data |-> Concat([i \in 1..Len(batch) |->
                    [k \in 1..sample_size |->
                        IF k <= Len(req[batch[i]].input.data)
                        THEN req[batch[i]].input.data[k] ELSE pad]])]

\* The slices handed out in the opposite order.
OutputSliceMutant(out, N, i) ==
    LET out_sample_size == Len(out.data) \div N
    IN SubSeq(out.data, (N - i) * out_sample_size + 1, (N - i + 1) * out_sample_size)

\* Lines 448-457: slice i (1-based) of the batched output.
OutputSlice(out, N, i) ==
    LET out_sample_size == Len(out.data) \div N
    IN SubSeq(out.data, (i - 1) * out_sample_size + 1, i * out_sample_size)

\* The exception is caught at line 461 and the catch loop starts.
Caught(what) ==
    /\ b_ex' = what
    /\ b_i' = 1
    /\ b_pc' = "catch"

\* Lines 421-445: one request is forwarded as it is; several are stacked and
\* forwarded together.  Any allocation may fail with std::bad_alloc.  A read
\* past the end of an input is undefined: it yields some float (pad) or the
\* process dies on it (faults).
C_Process ==
    /\ b_pc = "process"
    /\ \E alloc_fails \in BOOLEAN, pad \in {0, 1}, faults \in BOOLEAN :
         LET N == Len(b_batch)
             overrun == N > 1 /\ \E i \in 1..N :
                           Len(req[b_batch[i]].input.data) < Prod(BatcherInputShape)
             x == IF N = 1 THEN req[b_batch[1]].input
                  ELSE StackInputs(b_batch, pad)
             r == Sequential_forward(BatcherModel, x)
         IN
         /\ overrun \/ (pad = 0 /\ ~faults)
         /\ IF alloc_fails
            THEN Caught("bad_alloc") /\ UNCHANGED <<b_out, promise>>
            ELSE IF faults
            THEN /\ b_pc' = "terminated"
                 /\ UNCHANGED <<b_out, promise, b_i, b_ex>>
            ELSE IF ~r.ok
            THEN Caught(r.exc) /\ UNCHANGED <<b_out, promise>>
            ELSE IF N = 1
            THEN /\ promise' = [promise EXCEPT ![b_batch[1]] = Value(r.t)]
                 /\ b_pc' = "iter_end"
                 /\ UNCHANGED <<b_out, b_i, b_ex>>
            ELSE /\ b_out' = r.t
                 /\ b_i' = 1
                 /\ b_pc' = "split"
                 /\ UNCHANGED <<promise, b_ex>>
    /\ UNCHANGED <<max_batch_size, b_queue, b_stop, b_batch, req, d_pc>>
    /\ UNCHANGED <<now, b_deadline, sub_time>>
    /\ OutsideB

\* Lines 453-459, one iteration: the result tensor is allocated, slice i is
\* copied into it and promise i is given the value.
C_Split ==
    /\ b_pc = "split"
    /\ \E alloc_fails \in BOOLEAN :
         LET N == Len(b_batch)
             result == TensorOfShape(Tail(b_out.shape))
         IN IF alloc_fails
            THEN Caught("bad_alloc") /\ UNCHANGED promise
            ELSE IF ~result.ok
            THEN Caught(result.exc) /\ UNCHANGED promise
            ELSE /\ promise' = [promise EXCEPT ![b_batch[b_i]] =
                        Value([shape |-> result.t.shape,
                               data |-> OutputSlice(b_out, N, b_i)])]
                 /\ b_i' = b_i + 1
                 /\ b_pc' = IF b_i = N THEN "iter_end" ELSE "split"
                 /\ UNCHANGED b_ex
    /\ UNCHANGED <<max_batch_size, b_queue, b_stop, b_batch, b_out, req, d_pc>>
    /\ UNCHANGED <<now, b_deadline, sub_time>>
    /\ OutsideB

\* Lines 461-467, one iteration: set_exception on a promise that already holds
\* a result throws std::future_error out of the handler and out of the thread
\* function, which ends the process in std::terminate.
C_Catch ==
    /\ b_pc = "catch"
    /\ IF promise[b_batch[b_i]].st # "none"
       THEN /\ b_pc' = "terminated"
            /\ UNCHANGED <<promise, b_i>>
       ELSE /\ promise' = [promise EXCEPT ![b_batch[b_i]] = Exception(b_ex)]
            /\ b_i' = b_i + 1
            /\ b_pc' = IF b_i = Len(b_batch) THEN "iter_end" ELSE "catch"
    /\ UNCHANGED <<max_batch_size, b_queue, b_stop, b_batch, b_out, b_ex, req, d_pc>>
    /\ UNCHANGED <<now, b_deadline, sub_time>>
    /\ OutsideB

\* The end of the loop body: the locals of the iteration go away.
C_NextIter ==
    /\ b_pc = "iter_end"
    /\ b_pc' = "top"
    /\ b_batch' = <<>>
    /\ b_i' = 0
    /\ b_out' = EmptyTensor
    /\ b_ex' = "none"
    /\ UNCHANGED <<max_batch_size, b_queue, b_stop, req, promise, d_pc>>
    /\ UNCHANGED <<now, b_deadline, sub_time>>
    /\ OutsideB

\* ~DynamicBatcher, lines 354-357.
D_Stop ==
    /\ Alive
    /\ d_pc = "idle"
    /\ b_stop' = TRUE
    /\ d_pc' = "notify"
    /\ UNCHANGED <<max_batch_size, b_queue, b_pc, b_batch, b_i, b_out, b_ex,
                   req, promise>>
    /\ UNCHANGED <<now, b_deadline, sub_time>>
    /\ OutsideB

\* ~DynamicBatcher, line 358.
D_Notify ==
    /\ Alive
    /\ d_pc = "notify"
    /\ b_pc' = NotifiedPc(b_pc)
    /\ d_pc' = "join"
    /\ UNCHANGED <<max_batch_size, b_queue, b_stop, b_batch, b_i, b_out, b_ex,
                   req, promise>>
    /\ UNCHANGED <<now, b_deadline, sub_time>>
    /\ OutsideB

\* ~DynamicBatcher, line 359: join returns once the consumer has returned.
D_Join ==
    /\ d_pc = "join"
    /\ b_pc = "exited"
    /\ d_pc' = "done"
    /\ UNCHANGED <<max_batch_size, b_queue, b_stop, b_pc, b_batch, b_i, b_out,
                   b_ex, req, promise>>
    /\ UNCHANGED <<now, b_deadline, sub_time>>
    /\ OutsideB

\* Time passes while the consumer is blocked in a wait whose deadline lies
\* ahead, and while it runs the model and hands out the results; every other
\* step of the consumer, and a submit from its push to its notify, take no
\* time.
Tick ==
    /\ now < MaxTime
    /\ \A r \in Requests : req[r].st # "pushed"
    /\ \/ b_pc \in {"waiting", "process", "split", "catch"}
       \/ b_pc = "waiting_until" /\ now < b_deadline
    /\ now' = now + 1
    /\ UNCHANGED <<max_batch_size, b_queue, b_stop, b_pc, b_batch, b_i, b_out,
                   b_ex, req, promise, d_pc, b_deadline, sub_time>>
    /\ OutsideB

NextB ==
    \/ \E r \in Requests, input \in BatcherInputs : Submit(r, input)
    \/ \E r \in Requests : SubmitNotify(r)
    \/ C_Wait
    \/ C_WokenUntil
    \/ C_Timeout
    \/ C_Spurious
    \/ C_Dispatch
    \/ C_Process
    \/ C_Split
    \/ C_Catch
    \/ C_NextIter
    \/ D_Stop
    \/ D_Notify
    \/ D_Join

\* The batcher with its clock: wait_until times out when the deadline is
\* reached (line 406), not before.
NextTimed ==
    \/ Tick
    \/ now >= b_deadline /\ C_Timeout
    \/ \E r \in Requests, input \in BatcherInputs : Submit(r, input)
    \/ \E r \in Requests : SubmitNotify(r)
    \/ C_Wait
    \/ C_WokenUntil
    \/ C_Spurious
    \/ C_Dispatch
    \/ C_Process
    \/ C_Split
    \/ C_Catch
    \/ C_NextIter
    \/ D_Stop
    \/ D_Notify
    \/ D_Join

\* ================================================================ ThreadPool
Tasks == 1..MaxTasks

Workers == 1..MaxWorkers

\* The pool is not part of the run.
IdleP ==
    /\ num_threads = 0
    /\ p_tasks = <<>>
    /\ p_stop = FALSE
    /\ w_pc = [w \in Workers |-> "absent"]
    /\ w_task = [w \in Workers |-> 0]
    /\ task = [t \in Tasks |-> "unsent"]
    /\ runs = [t \in Tasks |-> 0]
    /\ finished = [t \in Tasks |-> 0]
    /\ pd_pc = "idle"
    /\ pd_j = 0

\* ThreadPool::ThreadPool: num_threads workers (0 stands for the hardware
\* concurrency, at least 1), each at the top of its loop.
InitP ==
    /\ num_threads \in 1..MaxWorkers
    /\ p_tasks = <<>>
    /\ p_stop = FALSE
    /\ w_pc = [w \in Workers |-> IF w <= num_threads THEN "top" ELSE "absent"]
    /\ w_task = [w \in Workers |-> 0]
    /\ task = [t \in Tasks |-> "unsent"]
    /\ runs = [t \in Tasks |-> 0]
    /\ finished = [t \in Tasks |-> 0]
    /\ pd_pc = "idle"
    /\ pd_j = 0

\* The pool leaves the other components alone.
OutsideP == UNCHANGED <<varsB, varsH, mv_mutex, mv_engine, mv_thread,
                      io_pc, io_model, io_file, io_loaded, io_fused,
          capi, conv, tensors, logger>>

\* A submit that never refuses.
SubmitRejectsMutant == FALSE

\* submit, line 52: if (stop_) throw, under the mutex and before emplace.
SubmitRejects == p_stop

\* submit, lines 50-56: under the mutex, a stopped pool throws, otherwise the
\* task is put at the back of the queue.
P_Submit(t) ==
    /\ pd_pc # "done"
    /\ task[t] = "unsent"
    /\ \A u \in Tasks : u < t => task[u] # "unsent"
    /\ IF SubmitRejects
       THEN /\ task' = [task EXCEPT ![t] = "rejected"]
            /\ UNCHANGED p_tasks
       ELSE /\ task' = [task EXCEPT ![t] = "pushed"]
            /\ p_tasks' = Append(p_tasks, t)
    /\ UNCHANGED <<num_threads, p_stop, w_pc, w_task, runs, finished, pd_pc, pd_j>>
    /\ OutsideP

\* submit, lines 57-59: notify_one wakes one waiting worker, if there is one.
P_SubmitNotify(t) ==
    /\ task[t] = "pushed"
    /\ task' = [task EXCEPT ![t] = "accepted"]
    /\ IF \E w \in Workers : w_pc[w] = "waiting"
       THEN \E w \in Workers :
               /\ w_pc[w] = "waiting"
               /\ w_pc' = [w_pc EXCEPT ![w] = "woken"]
       ELSE UNCHANGED w_pc
    /\ UNCHANGED <<num_threads, p_tasks, p_stop, w_task, runs, finished, pd_pc, pd_j>>
    /\ OutsideP

\* thread_pool.cpp line 28: the test that makes a worker return.
WorkerExitsMutant == p_stop

WorkerExits == p_stop /\ p_tasks = <<>>

\* Taking the task pushed last.
FrontMutant(q) == q[Len(q)]

\* thread_pool.cpp line 31: task = std::move(tasks_.front()).
Front(q) == Head(q)

\* thread_pool.cpp lines 24-33: under the mutex the worker waits for stop_ or
\* a task, returns when stopped with an empty queue, else takes the front task.
W_Wait(w) ==
    /\ w_pc[w] \in {"top", "woken"}
    /\ IF ~(p_stop \/ p_tasks # <<>>)
       THEN /\ w_pc' = [w_pc EXCEPT ![w] = "waiting"]
            /\ UNCHANGED <<p_tasks, w_task, runs>>
       ELSE IF WorkerExits
       THEN /\ w_pc' = [w_pc EXCEPT ![w] = "exited"]
            /\ UNCHANGED <<p_tasks, w_task, runs>>
       ELSE /\ w_pc' = [w_pc EXCEPT ![w] = "running"]
            /\ w_task' = [w_task EXCEPT ![w] = Front(p_tasks)]
            /\ runs' = [runs EXCEPT ![Front(p_tasks)] = @ + 1]
            /\ p_tasks' = Tail(p_tasks)
    /\ UNCHANGED <<num_threads, p_stop, task, finished, pd_pc, pd_j>>
    /\ OutsideP

\* thread_pool.cpp line 34: task() returns (a packaged_task keeps what the
\* callable throws), and the loop starts over.
W_Run(w) ==
    /\ w_pc[w] = "running"
    /\ finished' = [finished EXCEPT ![w_task[w]] = @ + 1]
    /\ w_task' = [w_task EXCEPT ![w] = 0]
    /\ w_pc' = [w_pc EXCEPT ![w] = "top"]
    /\ UNCHANGED <<num_threads, p_tasks, p_stop, task, runs, pd_pc, pd_j>>
    /\ OutsideP

\* A spurious wake-up of condition_.wait.
W_Spurious(w) ==
    /\ w_pc[w] = "waiting"
    /\ w_pc' = [w_pc EXCEPT ![w] = "woken"]
    /\ UNCHANGED <<num_threads, p_tasks, p_stop, w_task, task, runs, finished,
                   pd_pc, pd_j>>
    /\ OutsideP

\* ~ThreadPool, lines 41-44.
PD_Stop ==
    /\ pd_pc = "idle"
    /\ p_stop' = TRUE
    /\ pd_pc' = "notify"
    /\ UNCHANGED <<num_threads, p_tasks, w_pc, w_task, task, runs, finished, pd_j>>
    /\ OutsideP

\* ~ThreadPool, line 45: notify_all.
PD_NotifyAll ==
    /\ pd_pc = "notify"
    /\ w_pc' = [w \in Workers |-> IF w_pc[w] = "waiting" THEN "woken" ELSE w_pc[w]]
    /\ pd_pc' = "join"
    /\ pd_j' = 1
    /\ UNCHANGED <<num_threads, p_tasks, p_stop, w_task, task, runs, finished>>
    /\ OutsideP

\* ~ThreadPool, lines 46-48: the workers are joined in order.
PD_Join ==
    /\ pd_pc = "join"
    /\ w_pc[pd_j] = "exited"
    /\ IF pd_j = num_threads
       THEN pd_pc' = "done" /\ UNCHANGED pd_j
       ELSE pd_j' = pd_j + 1 /\ UNCHANGED pd_pc
    /\ UNCHANGED <<num_threads, p_tasks, p_stop, w_pc, w_task, task, runs, finished>>
    /\ OutsideP

NextP ==
    \/ \E t \in Tasks : P_Submit(t)
    \/ \E t \in Tasks : P_SubmitNotify(t)
    \/ \E w \in Workers : W_Wait(w)
    \/ \E w \in Workers : W_Run(w)
    \/ \E w \in Workers : W_Spurious(w)
    \/ PD_Stop
    \/ PD_NotifyAll
    \/ PD_Join

\* ============================================================== model files
\* A .titan file is the sequence of its fields: the four magic bytes, then
\* one element per value read by read_value / read_floats.
TITAN_MAGIC == <<84, 73, 84, 78>>

TITAN_FORMAT_VERSION == 2

DENSE == 1
RELU == 2
SIGMOID == 3
TANH == 4
SOFTMAX == 5
CONV2D == 6
MAXPOOL2D == 7
AVGPOOL2D == 8
FLATTEN == 9

Loaded(layers) == [ok |-> TRUE, layers |-> layers, exc |-> "none", msg |-> ""]

LoadThrows(exc, msg) == [ok |-> FALSE, layers |-> <<>>, exc |-> exc, msg |-> msg]

\* A read past the end that goes unnoticed: the layers read so far are all.
EndOfFileMutant == Loaded(<<>>)

\* read_value and read_floats, lines 16-34: if (!in) throw.
EndOfFile == LoadThrows("runtime_error", "ModelParser: unexpected end of file")

\* The parameterless layer a type id stands for.
PlainName(type_id) ==
    CASE type_id = RELU -> "ReLU"
      [] type_id = SIGMOID -> "Sigmoid"
      [] type_id = TANH -> "Tanh"
      [] type_id = SOFTMAX -> "Softmax"
      [] type_id = FLATTEN -> "Flatten"

\* ModelParser::load, the loop over the layers: f is the file, pos the read
\* position, n the number of layers still to read, acc the model so far.
RECURSIVE ReadLayers(_, _, _, _)
ReadLayers(f, pos, n, acc) ==
    IF n = 0 THEN Loaded(acc)
    ELSE IF pos > Len(f) THEN EndOfFile
    ELSE LET type_id == f[pos] IN
    IF type_id = DENSE
    THEN IF pos + 3 > Len(f) THEN EndOfFile
         ELSE LET in_features == f[pos + 1]
                  out_features == f[pos + 2]
                  has_bias == IF f[pos + 3] # 0 THEN 1 ELSE 0
                  nw == out_features * in_features
                  nb == IF has_bias = 1 THEN out_features ELSE 0
              IN IF in_features = 0 \/ out_features = 0
                 THEN LoadThrows("invalid_argument", "Tensor dimension is zero")
                 ELSE IF pos + 3 + nw + nb > Len(f) THEN EndOfFile
                 ELSE ReadLayers(f, pos + 4 + nw + nb, n - 1,
                        Append(acc,
                           Dense(in_features, out_features, has_bias,
                                 SubSeq(f, pos + 4, pos + 3 + nw),
                                 IF has_bias = 1
                                 THEN SubSeq(f, pos + 4 + nw, pos + 3 + nw + nb)
                                 ELSE Zeros(out_features))))
    ELSE IF type_id \in {RELU, SIGMOID, TANH, SOFTMAX, FLATTEN}
    THEN ReadLayers(f, pos + 1, n - 1, Append(acc, Plain(PlainName(type_id))))
    ELSE IF type_id \in {MAXPOOL2D, AVGPOOL2D}
    THEN IF pos + 3 > Len(f) THEN EndOfFile
         ELSE IF f[pos + 1] = 0
         THEN LoadThrows("invalid_argument", "kernel_size must be > 0")
         ELSE ReadLayers(f, pos + 4, n - 1,
                Append(acc, [type |-> IF type_id = MAXPOOL2D THEN "MaxPool2D"
                                      ELSE "AvgPool2D",
                             cfg |-> <<f[pos + 1],
                                       IF f[pos + 2] = 0 THEN f[pos + 1]
                                       ELSE f[pos + 2],
                                       f[pos + 3]>>,
                             w |-> <<>>, b |-> <<>>]))
    ELSE IF type_id = CONV2D
    THEN IF pos + 8 > Len(f) THEN EndOfFile
         ELSE LET nw == f[pos + 2] * f[pos + 1] * f[pos + 3] * f[pos + 4]
                  nb == IF f[pos + 8] # 0 THEN f[pos + 2] ELSE 0
              IN IF nw = 0 \/ f[pos + 5] = 0 \/ f[pos + 6] = 0
                 THEN LoadThrows("invalid_argument", "Conv2DLayer: zero dimension")
                 ELSE IF pos + 8 + nw + nb > Len(f) THEN EndOfFile
                 ELSE ReadLayers(f, pos + 9 + nw + nb, n - 1,
                        Append(acc, [type |-> "Conv2D",
                                     cfg |-> SubSeq(f, pos + 1, pos + 6) \o
                                             <<IF f[pos + 7] = 1 THEN 1 ELSE 0,
                                               IF f[pos + 8] # 0 THEN 1 ELSE 0>>,
                                     w |-> SubSeq(f, pos + 9, pos + 8 + nw),
                                     b |-> IF nb = 0 THEN Zeros(f[pos + 2])
                                           ELSE SubSeq(f, pos + 9 + nw,
                                                       pos + 8 + nw + nb)]))
    ELSE LoadThrows("runtime_error", "ModelParser: unknown layer type ID")

\* The directory: the only file is "model.titan", with the fields file.
Exists(path) == path = "model.titan"

\* ModelParser::load(filepath).
ModelParser_load(path, file) ==
    IF ~Exists(path)
    THEN LoadThrows("runtime_error", "ModelParser: cannot open file")
    ELSE IF Len(file) < 4
    THEN LoadThrows("runtime_error",
                    "ModelParser: unexpected end of file while reading header")
    ELSE IF SubSeq(file, 1, 4) # TITAN_MAGIC
    THEN LoadThrows("runtime_error", "ModelParser: invalid magic number")
    ELSE IF Len(file) < 5 THEN EndOfFile
    ELSE IF file[5] > TITAN_FORMAT_VERSION
    THEN LoadThrows("runtime_error", "ModelParser: unsupported format version")
    ELSE IF Len(file) < 6 THEN EndOfFile
    ELSE ReadLayers(file, 7, file[6], <<>>)

\* ========================================================== InferenceEngine
ZeroStats(n) ==
    [inference_count |-> 0, total_time_ms |-> 0, min_latency_ms |-> 0,
     max_latency_ms |-> 0, mean_latency_ms |-> <<0, 1>>,
     layer_times_ms |-> Zeros(n)]

\* InferenceEngine(): no model, no buffers, profiling off.
NoEngine ==
    [loaded |-> FALSE, model |-> <<>>, input_shape |-> <<>>, buffers |-> <<>>,
     profiling |-> FALSE, stats |-> ZeroStats(0)]

Built(e) == [ok |-> TRUE, engine |-> e, exc |-> "none", msg |-> ""]

BuildThrows(exc, msg) == [ok |-> FALSE, engine |-> NoEngine, exc |-> exc, msg |-> msg]

\* load_model, lines 105-125: the shape given to the builder, else the
\* in_features of the first Dense layer, else <<>> for "cannot infer".
RECURSIVE FirstDense(_)
FirstDense(layers) ==
    IF layers = <<>> THEN <<>>
    ELSE IF layers[1].type = "Dense" THEN <<layers[1].cfg[1]>>
    ELSE FirstDense(Tail(layers))

\* allocate_buffers: one tensor per layer, of the shape output_shape derives
\* from the shape before it.
RECURSIVE allocate_buffers(_, _, _)
allocate_buffers(layers, current_shape, acc) ==
    IF layers = <<>> THEN [ok |-> TRUE, buffers |-> acc, exc |-> "none"]
    ELSE LET s == Layer_output_shape(layers[1], current_shape)
         IN IF ~s.ok THEN [ok |-> FALSE, buffers |-> acc, exc |-> s.exc]
            ELSE LET t == TensorOfShape(s.shape)
                 IN IF ~t.ok THEN [ok |-> FALSE, buffers |-> acc, exc |-> t.exc]
                    ELSE allocate_buffers(Tail(layers), s.shape, Append(acc, t.t))

\* The tensor layer i (1-based) reads: the caller's input or the buffer of the
\* layer before it.
LayerInput(buffers, input, i) == IF i = 1 THEN input ELSE buffers[i - 1]

\* One pass of the layers over the buffers, from layer i on: the buffers as
\* the pass leaves them, and the exception that ended it, if any.
RECURSIVE ForwardPass(_, _, _, _)
ForwardPass(layers, buffers, input, i) ==
    IF i > Len(layers) THEN [ok |-> TRUE, buffers |-> buffers, exc |-> "none", msg |-> ""]
    ELSE LET r == Layer_forward(layers[i], LayerInput(buffers, input, i))
         IN IF ~r.ok
            THEN [ok |-> FALSE, buffers |-> buffers, exc |-> r.exc, msg |-> r.msg]
            ELSE ForwardPass(layers, [buffers EXCEPT ![i] = r.t], input, i + 1)

\* warmup(num_runs): forward passes of a zero tensor, then reset_stats.
RECURSIVE warmup(_, _)
warmup(e, num_runs) ==
    IF num_runs = 0
    THEN Built([e EXCEPT !.stats = ZeroStats(Len(e.model))])
    ELSE LET dummy == TensorOfShape(e.input_shape)
         IN IF ~dummy.ok THEN BuildThrows(dummy.exc, dummy.msg)
            ELSE LET r == ForwardPass(e.model, e.buffers, dummy.t, 1)
                 IN IF ~r.ok THEN BuildThrows(r.exc, r.msg)
                    ELSE warmup([e EXCEPT !.buffers = r.buffers], num_runs - 1)

\* InferenceEngine::Builder::build with load_model inlined.  b is the builder:
\* [path, profiling, warmup_runs, input_shape]; file is what the path holds.
InferenceEngine_build(b, file) ==
    IF b.path = ""
    THEN BuildThrows("invalid_argument", "model path not set")
    ELSE LET m == ModelParser_load(b.path, file) IN
    IF ~m.ok THEN BuildThrows(m.exc, m.msg)
    ELSE IF m.layers = <<>>
    THEN BuildThrows("runtime_error", "InferenceEngine: loaded model has no layers")
    ELSE LET input_shape == IF b.input_shape # <<>> THEN b.input_shape
                            ELSE FirstDense(m.layers) IN
    IF input_shape = <<>>
    THEN BuildThrows("runtime_error", "InferenceEngine: cannot infer input shape")
    ELSE LET a == allocate_buffers(m.layers, input_shape, <<>>) IN
    IF ~a.ok THEN BuildThrows(a.exc, "allocate_buffers")
    ELSE LET e == [loaded |-> TRUE, model |-> m.layers,
                   input_shape |-> input_shape, buffers |-> a.buffers,
                   profiling |-> b.profiling,
                   stats |-> ZeroStats(Len(m.layers))]
         IN IF b.warmup_runs > 0 THEN warmup(e, b.warmup_runs) ELSE Built(e)

\* ============================================================== ModelHandle
\* What a call on the handle gives back: a value, or the exception thrown.
\* kind is the exception class, code its ErrorCode ("none" for a class that
\* carries none).
NoOutcome == [kind |-> "none", code |-> "none", val |-> <<>>]

Returned(v) == [kind |-> "value", code |-> "none", val |-> v]

Thrown(kind, code) == [kind |-> kind, code |-> code, val |-> <<>>]

\* ModelHandle::Builder::build, lines 46-76.
ModelHandle_build(b, file) ==
    IF b.path = ""
    THEN [ok |-> FALSE, engine |-> NoEngine,
          error |-> Thrown("ModelLoadException", "FILE_NOT_FOUND")]
    ELSE LET r == InferenceEngine_build(b, file)
         IN IF r.ok THEN [ok |-> TRUE, engine |-> r.engine, error |-> NoOutcome]
            ELSE IF r.exc = "invalid_argument"
            THEN [ok |-> FALSE, engine |-> NoEngine,
                  error |-> Thrown("ModelLoadException", "INVALID_FORMAT")]
            ELSE IF r.exc = "runtime_error"
            THEN [ok |-> FALSE, engine |-> NoEngine,
                  error |-> Thrown("ModelLoadException", "FILE_NOT_FOUND")]
            ELSE [ok |-> FALSE, engine |-> NoEngine,
                  error |-> Thrown(r.exc, "none")]

Threads == 1..MaxThreads

\* The files tried: a Dense(2,2)+ReLU model, a model whose second Dense layer
\* does not fit the first, a model without Dense layer, every truncation of
\* the first, and files with one field spoilt.
GoodFile == TITAN_MAGIC \o <<2, 2, DENSE, 2, 2, 1, 0, 1, 2, 3, 1, 2, RELU>>

SkewFile ==
    TITAN_MAGIC \o <<1, 2, DENSE, 2, 2, 0, 1, 0, 0, 1, DENSE, 3, 1, 0, 1, 1, 1>>

RankFile == TITAN_MAGIC \o <<2, 2, RELU, SOFTMAX>>

Files ==
    { SubSeq(GoodFile, 1, k) : k \in 0..Len(GoodFile) }
    \cup { SkewFile, RankFile,
           TITAN_MAGIC \o <<2, 0>>,
           [GoodFile EXCEPT ![1] = 0],
           [GoodFile EXCEPT ![5] = TITAN_FORMAT_VERSION + 1],
           [GoodFile EXCEPT ![7] = 10],
           [GoodFile EXCEPT ![Len(GoodFile)] = 0],
           TITAN_MAGIC \o <<2, 1, DENSE, 0, 2, 0>>,
           TITAN_MAGIC \o <<2, 1, MAXPOOL2D, 0, 1, 0>> }

Builders ==
    [path : {"", "missing.titan", "model.titan"},
     profiling : BOOLEAN,
     warmup_runs : 0..MaxWarmup,
     input_shape : {<<>>, <<2>>, <<1, 1, 2>>}]

\* The tensors passed to predict.
HandleInputs ==
    { [shape |-> <<2>>, data |-> <<0, 1>>],
      [shape |-> <<2>>, data |-> <<1, 0>>],
      [shape |-> <<2>>, data |-> <<NaN, 0>>],
      [shape |-> <<3>>, data |-> <<0, 0, 0>>],
      [shape |-> <<1, 2>>, data |-> <<0, 1>>],
      [shape |-> <<1, 1, 2>>, data |-> <<0, 1>>] }

\* The vectors passed to predict_batch.
HandleBatches ==
    { <<>>,
      << [shape |-> <<2>>, data |-> <<0, 1>>], [shape |-> <<2>>, data |-> <<1, 0>>] >>,
      << [shape |-> <<2>>, data |-> <<1, 0>>], [shape |-> <<3>>, data |-> <<0, 0, 0>>] >> }

OtherOps ==
    {"stats", "reset_stats", "is_loaded", "layer_count", "summary",
     "expected_input_shape"}

NoCall ==
    [pc |-> "idle", op |-> "none", inputs |-> <<>>, k |-> 0, i |-> 0,
     elapsed |-> 0, outs |-> <<>>, out |-> NoOutcome, pre |-> NoEngine]

OutsideH == UNCHANGED <<varsB, varsP, mv_mutex, mv_engine, mv_thread,
                      io_pc, io_model, io_file, io_loaded, io_fused,
          capi, conv, tensors, logger>>

InitH ==
    /\ builder \in Builders
    /\ disk \in Files
    /\ h_state = "unbuilt"
    /\ h_error = NoOutcome
    /\ h_engine = NoEngine
    /\ h_mutex = 0
    /\ h_calls = 0
    /\ h_done = 0
    /\ thread = [t \in Threads |-> NoCall]

\* Builder::build(): the handle, or the exception.
H_Build ==
    /\ h_state = "unbuilt"
    /\ LET r == ModelHandle_build(builder, disk)
       IN /\ h_state' = IF r.ok THEN "built" ELSE "failed"
          /\ h_error' = r.error
          /\ h_engine' = r.engine
    /\ UNCHANGED <<builder, disk, h_mutex, h_calls, h_done, thread>>
    /\ OutsideH

HandleVarsKept == UNCHANGED <<builder, disk, h_state, h_error>>

\* A thread calls an operation of the handle; it first has to take mutex_.
H_Call(t, op, inputs) ==
    /\ h_state = "built"
    /\ thread[t].pc = "idle"
    /\ h_calls < MaxCalls
    /\ h_calls' = h_calls + 1
    /\ thread' = [thread EXCEPT ![t] =
                    [NoCall EXCEPT !.pc = "lock", !.op = op, !.inputs = inputs]]
    /\ UNCHANGED <<h_engine, h_mutex, h_done>>
    /\ HandleVarsKept /\ OutsideH

\* A lock that does not wait for the mutex to be free.
CanLockMutant(t) == TRUE

\* std::lock_guard<std::mutex> lock(mutex_) can return.
CanLock(t) == h_mutex = 0

\* The lock_guard at the top of every operation (lines 107, 124, 149, 154,
\* 159, 164, 169, 178).  predict_batch of no input has nothing more to do.
H_Lock(t) ==
    LET f == thread[t] IN
    /\ f.pc = "lock"
    /\ CanLock(t)
    /\ h_mutex' = t
    /\ thread' = [thread EXCEPT ![t] =
          IF f.op \in OtherOps THEN [f EXCEPT !.pc = "body"]
          ELSE IF f.inputs = <<>>
          THEN [f EXCEPT !.pc = "unlock", !.out = Returned(<<>>)]
          ELSE [f EXCEPT !.pc = "enter", !.k = 1]]
    /\ UNCHANGED <<h_engine, h_calls, h_done>>
    /\ HandleVarsKept /\ OutsideH

NaNMessage == "InferenceEngine: input contains NaN at index"

\* msg.find("NaN") != npos, over the messages of the model.
MentionsNaN(msg) == msg = NaNMessage

\* The catch clauses of predict and predict_batch (lines 110-119, 131-140);
\* an exception of any other class passes through them.
Translate(exc, msg) ==
    IF exc = "invalid_argument"
    THEN Thrown("ValidationException",
                IF MentionsNaN(msg) THEN "NAN_INPUT" ELSE "SHAPE_MISMATCH")
    ELSE IF exc = "runtime_error"
    THEN Thrown("InferenceException", "NO_MODEL_LOADED")
    ELSE Thrown(exc, "none")

\* The call of frame f ends with exception exc; the lock_guard is still held.
Fail(f, exc, msg) == [f EXCEPT !.pc = "unlock", !.out = Translate(exc, msg)]

\* validate_input: the message of the exception, "" when the input passes.
validate_input(input_shape, input) ==
    IF Len(input.shape) # Len(input_shape)
    THEN "InferenceEngine: expected D input"
    ELSE IF input.shape # input_shape
    THEN "InferenceEngine: expected input shape"
    ELSE IF \E i \in 1..Len(input.data) : input.data[i] = NaN
    THEN NaNMessage
    ELSE ""

\* InferenceEngine::predict, lines 211-216, for input k of the call.
E_Enter(t) ==
    LET f == thread[t]
        input == f.inputs[f.k]
        g == [f EXCEPT !.pre = h_engine]
        msg == validate_input(h_engine.input_shape, input)
    IN
    /\ f.pc = "enter"
    /\ thread' = [thread EXCEPT ![t] =
          IF ~h_engine.loaded
          THEN Fail(g, "runtime_error", "InferenceEngine::predict: no model loaded")
          ELSE IF msg # "" THEN Fail(g, "invalid_argument", msg)
          ELSE [g EXCEPT !.pc = "layer", !.i = 1, !.elapsed = 0]]
    /\ UNCHANGED <<h_engine, h_mutex, h_calls, h_done>>
    /\ HandleVarsKept /\ OutsideH

\* Lines 225-248: layer i writes its buffer; with profiling the time it took
\* is added to layer_times_ms[i].  A layer that throws ends the call.
E_Layer(t) ==
    LET f == thread[t]
        i == f.i
        r == Layer_forward(h_engine.model[i],
                           LayerInput(h_engine.buffers, f.inputs[f.k], i))
        next == IF i = Len(h_engine.model) THEN "finish" ELSE "layer"
    IN
    /\ f.pc = "layer"
    /\ IF ~r.ok
       THEN /\ thread' = [thread EXCEPT ![t] = Fail(f, r.exc, r.msg)]
            /\ UNCHANGED h_engine
       ELSE \E dt \in 0..MaxTick :
            /\ h_engine.profiling \/ dt = 0
            /\ h_engine' = [h_engine EXCEPT !.buffers[i] = r.t,
                                            !.stats.layer_times_ms[i] = @ + dt]
            /\ thread' = [thread EXCEPT ![t] =
                            [f EXCEPT !.pc = next, !.i = i + 1,
                                      !.elapsed = @ + dt]]
    /\ UNCHANGED <<h_mutex, h_calls, h_done>>
    /\ HandleVarsKept /\ OutsideH

\* Lines 256-270.
RecordInference(st, elapsed_ms) ==
    LET n == st.inference_count + 1
        total == st.total_time_ms + elapsed_ms
    IN [st EXCEPT !.inference_count = n,
                  !.total_time_ms = total,
                  !.mean_latency_ms = <<total, n>>,
                  !.min_latency_ms = IF n = 1 THEN elapsed_ms ELSE Min(@, elapsed_ms),
                  !.max_latency_ms = IF n = 1 THEN elapsed_ms ELSE Max(@, elapsed_ms)]

\* Lines 250-274: the statistics, then the deep copy of the last buffer, whose
\* allocation can fail.  predict returns the copy; predict_batch appends it
\* and goes on to its next input.
E_Finish(t) ==
    LET f == thread[t]
        output == h_engine.buffers[Len(h_engine.buffers)]
    IN
    /\ f.pc = "finish"
    /\ h_engine' = IF h_engine.profiling
                   THEN [h_engine EXCEPT !.stats = RecordInference(@, f.elapsed)]
                   ELSE h_engine
    /\ \E alloc_fails \in BOOLEAN :
         /\ h_done' = IF alloc_fails THEN h_done ELSE h_done + 1
         /\ thread' = [thread EXCEPT ![t] =
               IF alloc_fails THEN Fail(f, "bad_alloc", "std::bad_alloc")
               ELSE IF f.op = "predict"
               THEN [f EXCEPT !.pc = "unlock", !.out = Returned(output)]
               ELSE IF f.k < Len(f.inputs)
               THEN [f EXCEPT !.pc = "enter", !.k = @ + 1,
                              !.outs = Append(@, output)]
               ELSE [f EXCEPT !.pc = "unlock", !.outs = Append(@, output),
                              !.out = Returned(Append(f.outs, output))]]
    /\ UNCHANGED <<h_mutex, h_calls>>
    /\ HandleVarsKept /\ OutsideH

\* reset_stats, lines 297-305.
reset_stats(st) == ZeroStats(Len(st.layer_times_ms))

\* Sequential::summary: per layer its name, output shape and parameter count.
RECURSIVE summary(_, _)
summary(layers, shape) ==
    IF layers = <<>> THEN <<>>
    ELSE LET out == Layer_output_shape(layers[1], shape).shape
         IN << <<layers[1].type, out, Len(layers[1].w) +
                   (IF layers[1].type = "Dense" /\ layers[1].cfg[3] = 1
                    THEN Len(layers[1].b) ELSE 0)>> >>
            \o summary(Tail(layers), out)

\* The operations that are one call into the engine (lines 148-184).
\* expected_input_shape returns a reference to the engine's input_shape_.
H_Body(t) ==
    LET f == thread[t]
        e == h_engine
        no_model == Thrown("InferenceException", "NO_MODEL_LOADED")
        out == CASE f.op = "stats" -> Returned(e.stats)
                 [] f.op = "reset_stats" -> Returned(<<>>)
                 [] f.op = "is_loaded" -> Returned(e.loaded)
                 [] f.op = "layer_count" -> Returned(Len(e.model))
                 [] f.op = "summary" ->
                      IF e.loaded THEN Returned(summary(e.model, e.input_shape))
                      ELSE no_model
                 [] f.op = "expected_input_shape" ->
                      IF e.loaded
                      THEN [kind |-> "reference", code |-> "none", val |-> <<>>]
                      ELSE no_model
    IN
    /\ f.pc = "body"
    /\ h_engine' = IF f.op = "reset_stats"
                   THEN [e EXCEPT !.stats = reset_stats(@)] ELSE e
    /\ h_done' = IF f.op = "reset_stats" THEN 0 ELSE h_done
    /\ thread' = [thread EXCEPT ![t] = [f EXCEPT !.pc = "unlock", !.out = out]]
    /\ UNCHANGED <<h_mutex, h_calls>>
    /\ HandleVarsKept /\ OutsideH

\* The lock_guard's destructor; the call returns or throws to the caller.
H_Unlock(t) ==
    LET f == thread[t] IN
    /\ f.pc = "unlock"
    /\ h_mutex' = 0
    /\ thread' = [thread EXCEPT ![t] =
          [f EXCEPT !.pc = IF f.out.kind = "reference" THEN "has_ref" ELSE "idle"]]
    /\ UNCHANGED <<h_engine, h_calls, h_done>>
    /\ HandleVarsKept /\ OutsideH

\* The caller of expected_input_shape reads the vector it was given a
\* reference to, as titaninfer_predict does (titaninfer_c.cpp, lines 58-59).
H_ReadRef(t) ==
    /\ thread[t].pc = "has_ref"
    /\ thread' = [thread EXCEPT ![t].pc = "reading"]
    /\ UNCHANGED <<h_engine, h_mutex, h_calls, h_done>>
    /\ HandleVarsKept /\ OutsideH

H_ReadDone(t) ==
    /\ thread[t].pc = "reading"
    /\ thread' = [thread EXCEPT ![t].pc = "idle",
                                ![t].out = Returned(h_engine.input_shape)]
    /\ UNCHANGED <<h_engine, h_mutex, h_calls, h_done>>
    /\ HandleVarsKept /\ OutsideH

\* ModelHandle other(std::move(handle)), lines 86-88 with the engine's move
\* constructor (inference_engine.cpp, lines 68-74), while no call is running:
\* the handle is left without model.
H_MoveOut ==
    /\ h_state = "built"
    /\ h_engine.loaded
    /\ h_mutex = 0
    /\ \A t \in Threads : thread[t].pc \in {"idle", "has_ref"}
    /\ h_calls < MaxCalls
    /\ h_calls' = h_calls + 1
    /\ h_engine' = [h_engine EXCEPT !.loaded = FALSE, !.model = <<>>,
                                    !.input_shape = <<>>, !.buffers = <<>>]
    /\ UNCHANGED <<h_mutex, h_done, thread>>
    /\ HandleVarsKept /\ OutsideH

NextH ==
    \/ H_Build
    \/ H_MoveOut
    \/ \E t \in Threads :
         \/ \E input \in HandleInputs : H_Call(t, "predict", <<input>>)
         \/ \E inputs \in HandleBatches : H_Call(t, "predict_batch", inputs)
         \/ \E op \in OtherOps : H_Call(t, op, <<>>)
         \/ H_Lock(t)
         \/ E_Enter(t)
         \/ E_Layer(t)
         \/ E_Finish(t)
         \/ H_Body(t)
         \/ H_Unlock(t)
         \/ H_ReadRef(t)
         \/ H_ReadDone(t)

\* ================================================= ModelHandle::operator=
\* Two built handles, a (1) owning model 1 and b (2) owning model 2, and no
\* call running.
InitM ==
    /\ mv_mutex = [h \in {1, 2} |-> 0]
    /\ mv_engine = [h \in {1, 2} |-> h]
    /\ mv_thread = [t \in 1..MaxMovers |->
          [pc |-> "idle", op |-> "none", self |-> 0, other |-> 0, calls |-> 0,
           out |-> 0]]

\* A thread calls self = std::move(other), self.predict or self.stats.  Line
\* 91: a handle assigned to itself is left alone and no mutex is taken.
MV_Call(t, op, self, other) ==
    LET f == mv_thread[t] IN
    /\ f.pc = "idle"
    /\ f.calls < MaxMoveCalls
    /\ mv_thread' = [mv_thread EXCEPT ![t] =
          [f EXCEPT !.pc = IF op = "assign" /\ self = other THEN "idle" ELSE "lock",
                    !.op = op, !.self = self, !.other = other,
                    !.calls = @ + 1, !.out = 0]]
    /\ UNCHANGED <<mv_mutex, mv_engine>>
    /\ UNCHANGED <<varsB, varsP, varsH>>
    /\ UNCHANGED <<io_pc, io_model, io_file, io_loaded, io_fused,
          capi, conv, tensors, logger>>

\* Locking one mutex after the other, this handle's first.
LockTargetsMutant(t) ==
    IF mv_mutex[mv_thread[t].self] # t THEN {mv_thread[t].self}
    ELSE {mv_thread[t].other}

\* The mutexes the thread's blocking acquisition takes together.  Line 92:
\* std::lock(mutex_, other.mutex_) returns holding both and holds neither
\* while it waits; the lock_guard of the other operations takes mutex_.
LockTargets(t) ==
    IF mv_thread[t].op = "assign"
    THEN {mv_thread[t].self, mv_thread[t].other}
    ELSE {mv_thread[t].self}

\* The body starts once every mutex of the call is held.
MV_Lock(t) ==
    LET f == mv_thread[t]
        S == LockTargets(t)
    IN
    /\ f.pc = "lock"
    /\ \A h \in S : mv_mutex[h] = 0
    /\ mv_mutex' = [h \in {1, 2} |-> IF h \in S THEN t ELSE mv_mutex[h]]
    /\ mv_thread' = [mv_thread EXCEPT ![t].pc =
          IF /\ mv_mutex'[f.self] = t
             /\ f.op = "assign" => mv_mutex'[f.other] = t
          THEN "body" ELSE "lock"]
    /\ UNCHANGED mv_engine
    /\ UNCHANGED <<varsB, varsP, varsH>>
    /\ UNCHANGED <<io_pc, io_model, io_file, io_loaded, io_fused,
          capi, conv, tensors, logger>>

\* Line 95: engine_ = std::move(other.engine_) leaves the other handle
\* without model.  predict and stats read the handle's engine; predict on a
\* handle without model throws, which the lock_guard survives.
MV_Body(t) ==
    LET f == mv_thread[t] IN
    /\ f.pc = "body"
    /\ IF f.op = "assign"
       THEN /\ mv_engine' = [mv_engine EXCEPT ![f.self] = mv_engine[f.other],
                                              ![f.other] = 0]
            /\ mv_thread' = [mv_thread EXCEPT ![t].pc = "unlock_other"]
       ELSE /\ UNCHANGED mv_engine
            /\ mv_thread' = [mv_thread EXCEPT ![t].pc = "unlock",
                                              ![t].out = mv_engine[f.self]]
    /\ UNCHANGED mv_mutex
    /\ UNCHANGED <<varsB, varsP, varsH>>
    /\ UNCHANGED <<io_pc, io_model, io_file, io_loaded, io_fused,
          capi, conv, tensors, logger>>

\* Lines 93-97: lk2, declared last, is destroyed first.
MV_UnlockOther(t) ==
    /\ mv_thread[t].pc = "unlock_other"
    /\ mv_mutex' = [mv_mutex EXCEPT ![mv_thread[t].other] = 0]
    /\ mv_thread' = [mv_thread EXCEPT ![t].pc = "unlock"]
    /\ UNCHANGED mv_engine
    /\ UNCHANGED <<varsB, varsP, varsH>>
    /\ UNCHANGED <<io_pc, io_model, io_file, io_loaded, io_fused,
          capi, conv, tensors, logger>>

MV_Unlock(t) ==
    /\ mv_thread[t].pc = "unlock"
    /\ mv_mutex' = [mv_mutex EXCEPT ![mv_thread[t].self] = 0]
    /\ mv_thread' = [mv_thread EXCEPT ![t].pc = "idle"]
    /\ UNCHANGED mv_engine
    /\ UNCHANGED <<varsB, varsP, varsH>>
    /\ UNCHANGED <<io_pc, io_model, io_file, io_loaded, io_fused,
          capi, conv, tensors, logger>>

NextM ==
    \E t \in 1..MaxMovers :
        \/ \E op \in {"assign", "predict", "stats"}, self \in {1, 2},
              other \in {1, 2} : MV_Call(t, op, self, other)
        \/ MV_Lock(t)
        \/ MV_Body(t)
        \/ MV_UnlockOther(t)
        \/ MV_Unlock(t)

\* ======================================== ModelSerializer and apply_fusion
\* The layers a model is made of, as their constructors and setters leave
\* them: a pooling layer built with stride 0 has its kernel size as stride.
\* QuantizedDense stands for the layers ModelSerializer cannot identify.
LayerChoices ==
    { Dense(1, 1, 1, <<3>>, <<4>>),
      Dense(2, 1, 0, <<1, NaN>>, Zeros(1)),
      Plain("ReLU"), Plain("Sigmoid"), Plain("Tanh"), Plain("Softmax"),
      Plain("Flatten"), Plain("QuantizedDense"),
      [type |-> "MaxPool2D", cfg |-> <<2, 2, 0>>, w |-> <<>>, b |-> <<>>],
      [type |-> "AvgPool2D", cfg |-> <<1, 2, 1>>, w |-> <<>>, b |-> <<>>],
      [type |-> "Conv2D", cfg |-> <<1, 1, 1, 1, 1, 1, 1, 1>>, w |-> <<5>>,
       b |-> <<6>>],
      [type |-> "Conv2D", cfg |-> <<1, 2, 1, 1, 2, 1, 0, 0>>, w |-> <<7, 8>>,
       b |-> Zeros(2)] }

\* identify_layer_type: the tag of the layer's class, 0 for the throw.
identify_layer_type(l) ==
    CASE l.type = "Dense" -> DENSE
      [] l.type = "ReLU" -> RELU
      [] l.type = "Sigmoid" -> SIGMOID
      [] l.type = "Tanh" -> TANH
      [] l.type = "Softmax" -> SOFTMAX
      [] l.type = "Conv2D" -> CONV2D
      [] l.type = "MaxPool2D" -> MAXPOOL2D
      [] l.type = "AvgPool2D" -> AVGPOOL2D
      [] l.type = "Flatten" -> FLATTEN
      [] OTHER -> 0

\* A save that leaves out the bias of a Dense layer.
SaveLayerMutant(l) ==
    <<identify_layer_type(l)>> \o l.cfg \o l.w

\* ModelSerializer::save, lines 41-96: what one layer adds to the file.  The
\* bias is written only when the layer has one (cfg[3] of Dense, cfg[8] of
\* Conv2D).
SaveLayer(l) ==
    <<identify_layer_type(l)>> \o l.cfg \o l.w \o
    (IF \/ l.type = "Dense" /\ l.cfg[3] = 1
        \/ l.type = "Conv2D" /\ l.cfg[8] = 1
     THEN l.b ELSE <<>>)

\* ModelSerializer::save: the fields written, or the exception of
\* identify_layer_type.
ModelSerializer_save(model) ==
    IF \E i \in 1..Len(model) : identify_layer_type(model[i]) = 0
    THEN [ok |-> FALSE, file |-> <<>>]
    ELSE [ok |-> TRUE,
          file |-> TITAN_MAGIC \o <<TITAN_FORMAT_VERSION, Len(model)>> \o
                   Concat([i \in 1..Len(model) |-> SaveLayer(model[i])])]

\* A fusion that also swallows the Tanh after a Dense layer.
FusesWithMutant(next) == next.type \in {"ReLU", "Sigmoid", "Tanh"}

\* apply_fusion, lines 27 and 34: the activations a Dense layer is fused with.
FusesWith(next) == next.type \in {"ReLU", "Sigmoid"}

\* apply_fusion: the scan from layer i on.  A fused layer is built from the
\* Dense layer's in_features, out_features, has_bias, weights and bias; any
\* other layer is cloned.
RECURSIVE apply_fusion(_, _)
apply_fusion(model, i) ==
    IF i > Len(model) THEN <<>>
    ELSE IF i + 1 <= Len(model) /\ model[i].type = "Dense"
            /\ FusesWith(model[i + 1])
    THEN << [type |-> IF model[i + 1].type = "ReLU" THEN "FusedDenseReLU"
                      ELSE "FusedDenseSigmoid",
             cfg |-> model[i].cfg, w |-> model[i].w, b |-> model[i].b] >>
         \o apply_fusion(model, i + 2)
    ELSE <<model[i]>> \o apply_fusion(model, i + 1)

\* The ways a saved file is spoilt: cut short, or one field of it replaced by
\* a wrong magic byte, an unsupported version, or a tag no layer has.
Damaged(model, file) ==
    { SubSeq(file, 1, k) : k \in 0..(Len(file) - 1) }
    \cup { [file EXCEPT ![k] = 0] : k \in 1..4 }
    \cup { [file EXCEPT ![5] = v] : v \in {TITAN_FORMAT_VERSION + 1, 7} }
    \cup { [file EXCEPT ![6 + Len(Concat([j \in 1..(i - 1) |->
                                            SaveLayer(model[j])])) + 1] = tag] :
              i \in 1..Len(model), tag \in {0, FLATTEN + 1} }

InitIO ==
    /\ io_pc = "built"
    /\ io_model \in UNION { [1..n -> LayerChoices] : n \in 0..MaxLayers }
    /\ io_file = <<>>
    /\ io_loaded = LoadThrows("none", "")
    /\ io_fused = <<>>

IO_Save ==
    /\ io_pc = "built"
    /\ LET r == ModelSerializer_save(io_model)
       IN /\ io_pc' = IF r.ok THEN "saved" ELSE "save_failed"
          /\ io_file' = r.file
    /\ UNCHANGED <<io_model, io_loaded, io_fused>>
    /\ UNCHANGED <<varsB, varsP, varsH, mv_mutex, mv_engine, mv_thread,
                   capi, conv, tensors, logger>>

\* The file is spoilt between the save and the load.
IO_Damage ==
    /\ io_pc = "saved"
    /\ io_file' \in Damaged(io_model, io_file)
    /\ io_pc' = "damaged"
    /\ UNCHANGED <<io_model, io_loaded, io_fused>>
    /\ UNCHANGED <<varsB, varsP, varsH, mv_mutex, mv_engine, mv_thread,
                   capi, conv, tensors, logger>>

IO_Load ==
    /\ io_pc \in {"saved", "damaged"}
    /\ io_loaded' = ModelParser_load("model.titan", io_file)
    /\ io_pc' = IF io_pc = "saved" THEN "loaded" ELSE "loaded_damaged"
    /\ UNCHANGED <<io_model, io_file, io_fused>>
    /\ UNCHANGED <<varsB, varsP, varsH, mv_mutex, mv_engine, mv_thread,
                   capi, conv, tensors, logger>>

IO_Fuse ==
    /\ io_pc = "built"
    /\ io_fused' = apply_fusion(io_model, 1)
    /\ io_pc' = "fused"
    /\ UNCHANGED <<io_model, io_file, io_loaded>>
    /\ UNCHANGED <<varsB, varsP, varsH, mv_mutex, mv_engine, mv_thread,
                   capi, conv, tensors, logger>>

NextIO == IO_Save \/ IO_Damage \/ IO_Load \/ IO_Fuse

\* ==================================================================== C API
\* capi is one TitanInferModel_* as its caller sees it:
\*   loaded      "unloaded" before titaninfer_load, "null" when it returned
\*               NULL, "handle" when it returned a handle
\*   engine      handle->handle: the engine the ModelHandle owns
\*   last_error  handle->last_error
\*   status      what the latest titaninfer_predict returned ("none": no call)
\*   ok          how many titaninfer_predict calls returned TITANINFER_OK
\*   calls       how many titaninfer_predict calls were made
MaxCApiCalls == 3

\* titaninfer_load, lines 16-38: a builder with the path, the log level and,
\* when given, the input shape; profiling is never enabled and there is no
\* warm-up.  Any exception of build gives NULL.
titaninfer_load(model_path, file, input_shape) ==
    LET b == [path |-> model_path, profiling |-> FALSE, warmup_runs |-> 0,
              input_shape |-> input_shape]
        r == ModelHandle_build(b, file)
    IN
    /\ capi.loaded = "unloaded"
    /\ capi' = IF model_path = "NULL" \/ ~r.ok
               THEN [capi EXCEPT !.loaded = "null"]
               ELSE [capi EXCEPT !.loaded = "handle", !.engine = r.engine]
    /\ UNCHANGED <<varsB, varsP, varsH, mv_mutex, mv_engine, mv_thread,
                   io_pc, io_model, io_file, io_loaded, io_fused,
                   conv, tensors, logger>>

\* titaninfer_predict, lines 44-95, with ModelHandle::predict and
\* InferenceEngine::predict inlined.  null_arg: one of input_data, output_data
\* and actual_output_len is NULL; input_data: the floats passed, input_len
\* their number; dt: the time the forward pass took; alloc_fails: the copy of
\* the last buffer cannot be allocated.  The per-layer times are not kept: no
\* function of the C API reads them.
titaninfer_predict(null_arg, input_data, output_len, dt, alloc_fails) ==
    LET e == capi.engine
        tensor == TensorOfShape(e.input_shape)
        input == [shape |-> e.input_shape, data |-> input_data]
        invalid == validate_input(e.input_shape, input)
        r == ForwardPass(e.model, e.buffers, input, 1)
        result == r.buffers[Len(r.buffers)]
        Returns(status, msg, engine) ==
            capi' = [capi EXCEPT !.status = status, !.last_error = msg,
                                 !.engine = engine, !.calls = @ + 1,
                                 !.ok = IF status = "OK" THEN @ + 1 ELSE @]
        Catch(exc, msg, engine) ==
            Returns(IF Translate(exc, msg).kind = "ValidationException"
                    THEN "ERR_VALIDATION" ELSE "ERR_INFERENCE", msg, engine)
        counted == IF e.profiling
                   THEN [e EXCEPT !.buffers = r.buffers,
                                  !.stats = RecordInference(@, dt)]
                   ELSE [e EXCEPT !.buffers = r.buffers]
    IN
    /\ capi.loaded # "unloaded"
    /\ capi.calls < MaxCApiCalls
    /\ e.profiling \/ dt = 0
    /\ IF capi.loaded = "null"
       THEN capi' = [capi EXCEPT !.status = "ERR_INVALID_ARG", !.calls = @ + 1]
       ELSE IF null_arg
       THEN Returns("ERR_INVALID_ARG", "null pointer argument", e)
       ELSE IF ~tensor.ok THEN Catch(tensor.exc, tensor.msg, e)
       ELSE IF Len(input_data) # Len(tensor.t.data)
       THEN Returns("ERR_VALIDATION",
                    "input length does not match expected", e)
       ELSE IF ~e.loaded
       THEN Catch("runtime_error", "InferenceEngine::predict: no model loaded", e)
       ELSE IF invalid # "" THEN Catch("invalid_argument", invalid, e)
       ELSE IF ~r.ok
       THEN Catch(r.exc, r.msg, [e EXCEPT !.buffers = r.buffers])
       ELSE IF alloc_fails THEN Catch("bad_alloc", "std::bad_alloc", counted)
       ELSE IF output_len < Len(result.data)
       THEN Returns("ERR_INVALID_ARG", "output buffer too small", counted)
       ELSE Returns("OK", "", counted)
    /\ UNCHANGED <<varsB, varsP, varsH, mv_mutex, mv_engine, mv_thread,
                   io_pc, io_model, io_file, io_loaded, io_fused,
                   conv, tensors, logger>>

\* titaninfer_last_error without the test for an empty string.
titaninfer_last_errorMutant == capi.last_error

\* titaninfer_last_error, lines 97-105: NULL for a null handle and for an
\* empty last_error, else the string.
titaninfer_last_error ==
    IF capi.loaded # "handle" THEN "NULL"
    ELSE IF capi.last_error = "" THEN "NULL"
    ELSE capi.last_error

\* titaninfer_inference_count, lines 120-125.
titaninfer_inference_count ==
    IF capi.loaded # "handle" THEN 0 ELSE capi.engine.stats.inference_count

\* =================================================== convolution arithmetic
\* The sizes tried: spatial extents 1..MaxExtent, kernels and strides
\* 1..MaxKernel.  size_t has 64 bits; no sum or product over these bounds
\* comes near 2^64, so the arithmetic below is the code's.
MaxExtent == 5

MaxKernel == 3

\* ops::conv_output_size, lines 10-20.
conv_output_size(input_size, kernel_size, stride, padding) ==
    IF stride = 0 \/ input_size + 2 * padding < kernel_size
    THEN [ok |-> FALSE, size |-> 0]
    ELSE [ok |-> TRUE,
          size |-> ((input_size + 2 * padding - kernel_size) \div stride) + 1]

\* ops::compute_same_padding, lines 22-30.
compute_same_padding(input_size, kernel_size, stride) ==
    LET out_size == (input_size + stride - 1) \div stride
        needed == (out_size - 1) * stride + kernel_size
    IN IF needed > input_size THEN (needed - input_size) \div 2 ELSE 0

\* Conv2DLayer::output_shape, lines 308-336, called on the layer l with
\* the members <<out_channels_, kernel_h_, kernel_w_, stride_h_, stride_w_,
\* padding_>>; the call and what it returned are kept in conv, one call per
\* behaviour.
Conv2DLayer_output_shape(l, input_shape) ==
    LET out_channels_ == l[1]
        kernel_h_ == l[2]
        kernel_w_ == l[3]
        stride_h_ == l[4]
        stride_w_ == l[5]
        padding_ == l[6]
        n == Len(input_shape)
        H == input_shape[n - 1]
        W == input_shape[n]
        pad_h == IF padding_ = "SAME"
                 THEN compute_same_padding(H, kernel_h_, stride_h_) ELSE 0
        pad_w == IF padding_ = "SAME"
                 THEN compute_same_padding(W, kernel_w_, stride_w_) ELSE 0
        h == conv_output_size(H, kernel_h_, stride_h_, pad_h)
        w == conv_output_size(W, kernel_w_, stride_w_, pad_w)
        lead == IF n = 3 THEN <<out_channels_>>
                ELSE <<input_shape[1], out_channels_>>
    IN
    /\ conv = <<>>
    /\ conv' = [kernel |-> <<kernel_h_, kernel_w_>>,
                stride |-> <<stride_h_, stride_w_>>,
                padding |-> padding_, input_shape |-> input_shape,
                out |-> IF n \notin {3, 4} \/ ~h.ok \/ ~w.ok
                        THEN [ok |-> FALSE, shape |-> <<>>]
                        ELSE [ok |-> TRUE, shape |-> lead \o <<h.size, w.size>>]]
    /\ UNCHANGED <<varsB, varsP, varsH, mv_mutex, mv_engine, mv_thread,
                   io_pc, io_model, io_file, io_loaded, io_fused,
                   capi, tensors, logger>>

\* ================================================================== Tensor
\* tensors.obj[i] is the Tensor object in slot i: live (constructed and not
\* yet destroyed), data_ (an address, 0 for nullptr), size_, shape_, and
\* moved: it was the source of a move and has not been assigned to since.
\* tensors.heap is the set of addresses allocated and not freed;
\* tensors.fault tells that free was called on an address not in it.  The
\* floats stored are left out: no operation here depends on them.
\* allocate_aligned hands out the lowest free multiple of ALIGNMENT.
MaxTensors == 3

ALIGNMENT == 32

\* Tensor(shape), Tensor(const Tensor&) and Tensor(Tensor&&), lines 19-50,
\* building slot i; from is the slot of the argument of the last two.  A
\* constructor that throws leaves no object.
Tensor_construct(i, kind, shape, from, alloc_fails) ==
    LET other == tensors.obj[from]
        size_ == IF kind = "shape" THEN Prod(shape) ELSE other.size_
        ptr == IF size_ = 0 THEN 0
               ELSE ALIGNMENT * CHOOSE k \in 1..MaxTensors :
                      /\ ALIGNMENT * k \notin tensors.heap
                      /\ \A j \in 1..(k - 1) : ALIGNMENT * j \in tensors.heap
        throws == \/ kind = "shape" /\ ~validate_shape(shape)
                  \/ kind \in {"shape", "copy"} /\ size_ # 0 /\ alloc_fails
    IN
    /\ ~tensors.obj[i].live
    /\ kind \in {"shape", "copy", "move"}
    /\ kind = "shape" \/ (from # i /\ other.live)
    /\ tensors' =
         IF throws THEN tensors
         ELSE IF kind = "move"
         THEN [tensors EXCEPT
                 !.obj[i] = [other EXCEPT !.moved = FALSE],
                 !.obj[from] = [live |-> TRUE, data_ |-> 0, size_ |-> 0,
                                shape_ |-> <<>>, moved |-> TRUE]]
         ELSE [tensors EXCEPT
                 !.obj[i] = [live |-> TRUE, data_ |-> ptr, size_ |-> size_,
                             shape_ |-> IF kind = "shape" THEN shape
                                        ELSE other.shape_,
                             moved |-> FALSE],
                 !.heap = IF ptr = 0 THEN @ ELSE @ \cup {ptr}]
    /\ UNCHANGED <<varsB, varsP, varsH, mv_mutex, mv_engine, mv_thread,
                   io_pc, io_model, io_file, io_loaded, io_fused,
                   capi, conv, logger>>

\* operator=(const Tensor&) and operator=(Tensor&&), lines 60-91, on slot i
\* with the object of slot from (i itself for a self-assignment).  The copy
\* frees data_, copies shape_ and size_ and then allocates: when the
\* allocation throws, data_ still holds the freed address.
Tensor_assign(i, kind, from, alloc_fails) ==
    LET this == tensors.obj[i]
        other == tensors.obj[from]
        heap == tensors.heap \ {this.data_}
        ptr == IF other.size_ = 0 THEN 0
               ELSE ALIGNMENT * CHOOSE k \in 1..MaxTensors :
                      /\ ALIGNMENT * k \notin heap
                      /\ \A j \in 1..(k - 1) : ALIGNMENT * j \in heap
        fault == tensors.fault \/ (this.data_ # 0 /\ this.data_ \notin tensors.heap)
    IN
    /\ this.live /\ other.live
    /\ kind \in {"copy", "move"}
    /\ tensors' =
         IF from = i THEN tensors
         ELSE IF kind = "move"
         THEN [tensors EXCEPT
                 !.obj[i] = [other EXCEPT !.moved = FALSE],
                 !.obj[from] = [other EXCEPT !.data_ = 0, !.size_ = 0,
                                             !.shape_ = <<>>, !.moved = TRUE],
                 !.heap = heap, !.fault = fault]
         ELSE IF other.size_ # 0 /\ alloc_fails
         THEN [tensors EXCEPT
                 !.obj[i] = [this EXCEPT !.shape_ = other.shape_,
                                         !.size_ = other.size_,
                                         !.moved = FALSE],
                 !.heap = heap, !.fault = fault]
         ELSE [tensors EXCEPT
                 !.obj[i] = [this EXCEPT !.shape_ = other.shape_,
                                         !.size_ = other.size_,
                                         !.data_ = ptr, !.moved = FALSE],
                 !.heap = IF ptr = 0 THEN heap ELSE heap \cup {ptr},
                 !.fault = fault]
    /\ UNCHANGED <<varsB, varsP, varsH, mv_mutex, mv_engine, mv_thread,
                   io_pc, io_model, io_file, io_loaded, io_fused,
                   capi, conv, logger>>

\* ~Tensor(), lines 52-54.
Tensor_destroy(i) ==
    LET this == tensors.obj[i]
    IN
    /\ this.live
    /\ tensors' = [tensors EXCEPT
                     !.obj[i] = [live |-> FALSE, data_ |-> 0, size_ |-> 0,
                                 shape_ |-> <<>>, moved |-> FALSE],
                     !.heap = @ \ {this.data_},
                     !.fault = @ \/ (this.data_ # 0 /\ this.data_ \notin tensors.heap)]
    /\ UNCHANGED <<varsB, varsP, varsH, mv_mutex, mv_engine, mv_thread,
                   io_pc, io_model, io_file, io_loaded, io_fused,
                   capi, conv, logger>>

\* ================================================================== Logger
\* enum class LogLevel, logger.hpp line 12.
DEBUG == 0

INFO == 1

WARNING == 2

ERROR == 3

SILENT == 4

MaxLogThreads == 2

MaxLogCalls == 2

\* logger is the singleton and the calls threads make on it:
\*   level_, stream_   the members; a stream is "cerr" or "os"
\*   mutex_            0 when free, else the thread holding it
\*   th[t]             the call of thread t: pc ("idle" between calls,
\*                     "checked" after log's test outside the lock, "locked"
\*                     with the lock_guard held), op and arg of the call made
\*                     last, seen (the level_ the call last read), ret (what
\*                     it returned: "written", "filtered" or a level), calls
\*   sink              the records written, in order: the stream, the
\*                     record's level and level_ at the moment of the write
\*   unguarded         the operations that read or wrote level_ or stream_
\*                     while their thread did not hold mutex_
\* Logger::set_level, lines 16-19: the lock_guard, then the assignment and
\* the release.
Logger_set_level(t, level) ==
    LET f == logger.th[t]
    IN /\ \/ /\ f.pc = "idle" /\ f.calls < MaxLogCalls /\ logger.mutex_ = 0
             /\ logger' = [logger EXCEPT
                   !.mutex_ = t,
                   !.th[t] = [f EXCEPT !.pc = "locked", !.op = "set_level",
                                       !.arg = level, !.calls = @ + 1]]
          \/ /\ f.pc = "locked" /\ f.op = "set_level" /\ f.arg = level
             /\ logger' = [logger EXCEPT
                   !.level_ = level,
                   !.unguarded = IF logger.mutex_ = t THEN @ ELSE @ \cup {f.op},
                   !.mutex_ = 0,
                   !.th[t] = [f EXCEPT !.pc = "idle", !.ret = "void"]]
       /\ UNCHANGED <<varsB, varsP, varsH, mv_mutex, mv_engine, mv_thread,
                      io_pc, io_model, io_file, io_loaded, io_fused,
                      capi, conv, tensors>>

\* Logger::level, lines 21-23: returns level_; takes no lock.
Logger_level(t) ==
    LET f == logger.th[t]
    IN /\ f.pc = "idle" /\ f.calls < MaxLogCalls
       /\ logger' = [logger EXCEPT
             !.unguarded = IF logger.mutex_ = t THEN @ ELSE @ \cup {"level"},
             !.th[t] = [f EXCEPT !.op = "level", !.arg = 0,
                                 !.seen = logger.level_,
                                 !.ret = logger.level_, !.calls = @ + 1]]
       /\ UNCHANGED <<varsB, varsP, varsH, mv_mutex, mv_engine, mv_thread,
                      io_pc, io_model, io_file, io_loaded, io_fused,
                      capi, conv, tensors>>

\* Logger::set_stream, lines 25-28.
Logger_set_stream(t, os) ==
    LET f == logger.th[t]
    IN /\ \/ /\ f.pc = "idle" /\ f.calls < MaxLogCalls /\ logger.mutex_ = 0
             /\ logger' = [logger EXCEPT
                   !.mutex_ = t,
                   !.th[t] = [f EXCEPT !.pc = "locked", !.op = "set_stream",
                                       !.arg = os, !.calls = @ + 1]]
          \/ /\ f.pc = "locked" /\ f.op = "set_stream" /\ f.arg = os
             /\ logger' = [logger EXCEPT
                   !.stream_ = os,
                   !.unguarded = IF logger.mutex_ = t THEN @ ELSE @ \cup {f.op},
                   !.mutex_ = 0,
                   !.th[t] = [f EXCEPT !.pc = "idle", !.ret = "void"]]
       /\ UNCHANGED <<varsB, varsP, varsH, mv_mutex, mv_engine, mv_thread,
                      io_pc, io_model, io_file, io_loaded, io_fused,
                      capi, conv, tensors>>

\* Logger::log without the second test of the level, under the lock.
Logger_logMutant(t, level) ==
    LET f == logger.th[t]
    IN /\ \/ /\ f.pc = "idle" /\ f.calls < MaxLogCalls
             /\ logger' = [logger EXCEPT
                   !.unguarded = IF logger.mutex_ = t THEN @ ELSE @ \cup {"log"},
                   !.th[t] = [f EXCEPT
                       !.pc = IF level < logger.level_ THEN "idle" ELSE "checked",
                       !.op = "log", !.arg = level, !.seen = logger.level_,
                       !.ret = IF level < logger.level_ THEN "filtered" ELSE "none",
                       !.calls = @ + 1]]
          \/ /\ f.pc = "checked" /\ f.op = "log" /\ f.arg = level
             /\ logger.mutex_ = 0
             /\ logger' = [logger EXCEPT !.mutex_ = t,
                                         !.th[t] = [f EXCEPT !.pc = "locked"]]
          \/ /\ f.pc = "locked" /\ f.op = "log" /\ f.arg = level
             /\ logger' = [logger EXCEPT
                   !.sink = Append(@, [stream |-> logger.stream_, level |-> level,
                                       threshold |-> logger.level_]),
                   !.mutex_ = 0,
                   !.th[t] = [f EXCEPT !.pc = "idle", !.ret = "written"]]
       /\ UNCHANGED <<varsB, varsP, varsH, mv_mutex, mv_engine, mv_thread,
                      io_pc, io_model, io_file, io_loaded, io_fused,
                      capi, conv, tensors>>

\* Logger::log, lines 30-42: the test of the level outside the lock, the
\* lock_guard, then the test again, the write to *stream_ and the release.
Logger_log(t, level) ==
    LET f == logger.th[t]
    IN /\ \/ /\ f.pc = "idle" /\ f.calls < MaxLogCalls
             /\ logger' = [logger EXCEPT
                   !.unguarded = IF logger.mutex_ = t THEN @ ELSE @ \cup {"log"},
                   !.th[t] = [f EXCEPT
                       !.pc = IF level < logger.level_ THEN "idle" ELSE "checked",
                       !.op = "log", !.arg = level, !.seen = logger.level_,
                       !.ret = IF level < logger.level_ THEN "filtered" ELSE "none",
                       !.calls = @ + 1]]
          \/ /\ f.pc = "checked" /\ f.op = "log" /\ f.arg = level
             /\ logger.mutex_ = 0
             /\ logger' = [logger EXCEPT !.mutex_ = t,
                                         !.th[t] = [f EXCEPT !.pc = "locked"]]
          \/ /\ f.pc = "locked" /\ f.op = "log" /\ f.arg = level
             /\ logger' = [logger EXCEPT
                   !.unguarded = IF logger.mutex_ = t THEN @ ELSE @ \cup {"log"},
                   !.sink = IF level < logger.level_ THEN @
                            ELSE Append(@, [stream |-> logger.stream_,
                                            level |-> level,
                                            threshold |-> logger.level_]),
                   !.mutex_ = 0,
                   !.th[t] = [f EXCEPT
                       !.pc = "idle", !.seen = logger.level_,
                       !.ret = IF level < logger.level_ THEN "filtered"
                               ELSE "written"]]
       /\ UNCHANGED <<varsB, varsP, varsH, mv_mutex, mv_engine, mv_thread,
                      io_pc, io_model, io_file, io_loaded, io_fused,
                      capi, conv, tensors>>

\* ============================================================ specifications
\* The batcher idle: the state the other specifications keep it in.
IdleB ==
    /\ max_batch_size = 0
    /\ b_queue = <<>>
    /\ b_stop = FALSE
    /\ b_pc = "top"
    /\ b_batch = <<>>
    /\ b_i = 0
    /\ b_out = EmptyTensor
    /\ b_ex = "none"
    /\ req = [r \in Requests |-> [st |-> "unsent", input |-> EmptyTensor]]
    /\ promise = [r \in Requests |-> NoResult]
    /\ d_pc = "idle"
    /\ now = 0
    /\ b_deadline = 0
    /\ sub_time = [r \in Requests |-> 0]

\* No handle is built.
IdleH ==
    /\ builder = [path |-> "", profiling |-> FALSE, warmup_runs |-> 0,
                  input_shape |-> <<>>]
    /\ disk = <<>>
    /\ h_state = "unbuilt"
    /\ h_error = NoOutcome
    /\ h_engine = NoEngine
    /\ h_mutex = 0
    /\ h_calls = 0
    /\ h_done = 0
    /\ thread = [t \in Threads |-> NoCall]

\* No model is being saved, loaded or fused.
IdleIO ==
    /\ io_pc = "built"
    /\ io_model = <<>>
    /\ io_file = <<>>
    /\ io_loaded = LoadThrows("none", "")
    /\ io_fused = <<>>

\* The C API, the convolution arithmetic, the tensors and the logger before
\* anything is done with them.
IdleLib ==
    /\ capi = [loaded |-> "unloaded", engine |-> NoEngine, last_error |-> "",
               status |-> "none", ok |-> 0, calls |-> 0]
    /\ conv = <<>>
    /\ tensors = [obj |-> [i \in 1..MaxTensors |->
                              [live |-> FALSE, data_ |-> 0, size_ |-> 0,
                               shape_ |-> <<>>, moved |-> FALSE]],
                  heap |-> {}, fault |-> FALSE]
    /\ logger = [level_ |-> INFO, stream_ |-> "cerr", mutex_ |-> 0,
                 th |-> [t \in 1..MaxLogThreads |->
                           [pc |-> "idle", op |-> "none", arg |-> 0,
                            seen |-> 0, ret |-> "none", calls |-> 0]],
                 sink |-> <<>>, unguarded |-> {}]

InitBatcher == InitB /\ IdleP /\ IdleH /\ InitM /\ IdleIO /\ IdleLib

InitPool == InitP /\ IdleB /\ IdleH /\ InitM /\ IdleIO /\ IdleLib

InitHandle == InitH /\ IdleB /\ IdleP /\ InitM /\ IdleIO /\ IdleLib

InitMove == InitM /\ IdleB /\ IdleP /\ IdleH /\ IdleIO /\ IdleLib

InitFiles == InitIO /\ IdleB /\ IdleP /\ IdleH /\ InitM /\ IdleLib

SpecBatcher == InitBatcher /\ [][NextB]_vars

SpecTimedBatcher == InitBatcher /\ [][NextTimed]_vars

\* The batcher with callers that also submit tensors that are not samples of
\* the declared input shape: submit takes any Tensor.
SpecAnyInput ==
    InitBatcher /\ [][
        \/ NextB
        \/ \E r \in Requests,
              input \in { [shape |-> <<1>>, data |-> <<1>>],
                          [shape |-> <<3>>, data |-> <<1, 0, 1>>] } :
              Submit(r, input)
    ]_vars

SpecPool == InitPool /\ [][NextP]_vars

SpecHandle == InitHandle /\ [][NextH]_vars

SpecMove == InitMove /\ [][NextM]_vars

SpecFiles == InitFiles /\ [][NextIO]_vars

InitLib == IdleB /\ IdleP /\ IdleH /\ InitM /\ IdleIO /\ IdleLib

\* A program that either makes one Conv2DLayer::output_shape call, on a
\* layer of any kernel, stride and padding mode, for a 3-D or 4-D input shape
\* or one of another rank, or constructs, copies, moves, assigns and destroys
\* tensors in any order, with allocations that may fail.
SpecOps ==
    InitLib /\ [][
        \/ /\ conv = <<>> /\ tensors.heap = {} /\ ~tensors.fault
           /\ \A i \in 1..MaxTensors : ~tensors.obj[i].live
           /\ \E out_channels_ \in 1..2, kernel_h_ \in 1..MaxKernel,
                 kernel_w_ \in 1..MaxKernel, stride_h_ \in 1..MaxKernel,
                 stride_w_ \in 1..MaxKernel, padding_ \in {"VALID", "SAME"},
                 H \in 1..MaxExtent, W \in 1..MaxExtent :
                 \E input_shape \in {<<1, H, W>>, <<2, 1, H, W>>, <<H, W>>} :
                    Conv2DLayer_output_shape(
                        <<out_channels_, kernel_h_, kernel_w_, stride_h_,
                          stride_w_, padding_>>, input_shape)
        \/ /\ conv = <<>>
           /\ \E i \in 1..MaxTensors, from \in 1..MaxTensors,
                 alloc_fails \in BOOLEAN :
                 \/ \E kind \in {"shape", "copy", "move"},
                       shape \in {<<2>>, <<1, 3>>, <<>>, <<2, 0>>} :
                       Tensor_construct(i, kind, shape, from, alloc_fails)
                 \/ \E kind \in {"copy", "move"} :
                       Tensor_assign(i, kind, from, alloc_fails)
                 \/ Tensor_destroy(i)
    ]_vars

\* Threads calling the Logger singleton, each step of a call interleaved
\* with the steps of the other thread's calls.
SpecLogger ==
    InitLib /\ [][
        \E t \in 1..MaxLogThreads :
           \/ \E level \in DEBUG..SILENT : Logger_set_level(t, level)
           \/ Logger_level(t)
           \/ \E os \in {"cerr", "os"} : Logger_set_stream(t, os)
           \/ \E level \in DEBUG..SILENT : Logger_log(t, level)
    ]_vars

\* A C program: titaninfer_load once, then titaninfer_predict calls, one at a
\* time.
SpecCApi ==
    InitLib /\ [][
        \/ \E model_path \in {"NULL", "", "missing.titan", "model.titan"},
              file \in Files, input_shape \in {<<>>, <<2>>, <<3>>, <<1, 1, 2>>} :
              titaninfer_load(model_path, file, input_shape)
        \/ \E null_arg \in BOOLEAN, n \in 1..3, output_len \in 0..2,
              dt \in 0..MaxTick, alloc_fails \in BOOLEAN :
              \E input_data \in [1..n -> {0, 1, NaN}] :
                 titaninfer_predict(null_arg, input_data, output_len, dt, alloc_fails)
    ]_vars

\* Every thread that has made a call is scheduled.
FairMove == SpecMove /\ \A t \in 1..MaxMovers :
    WF_vars(MV_Lock(t) \/ MV_Body(t) \/ MV_UnlockOther(t) \/ MV_Unlock(t))

\* The consumer thread, a submitter between its push and its return, and the
\* destructor once started keep running; a wait_until reaches its deadline.
\* Nothing makes a caller submit or destroy the batcher.
FairBatcher ==
    /\ SpecBatcher
    /\ WF_vars(C_Wait)
    /\ WF_vars(C_WokenUntil)
    /\ WF_vars(C_Timeout)
    /\ WF_vars(C_Dispatch)
    /\ WF_vars(C_Process)
    /\ WF_vars(C_Split)
    /\ WF_vars(C_Catch)
    /\ WF_vars(C_NextIter)
    /\ WF_vars(\E r \in Requests : SubmitNotify(r))
    /\ WF_vars(D_Notify)
    /\ WF_vars(D_Join)

\* ==================================================================== claims
\* The requests whose submit put them in the queue.
Queued(r) == req[r].st \in {"pushed", "accepted"}

\* C1: once the destructor of a batcher has started, it returns, and by then
\* every request that was put in the queue has a result in its promise.
C1_DestructionDeliversAll ==
    (d_pc # "idle") ~>
        (d_pc = "done" /\ \A r \in Requests : Queued(r) => promise[r].st # "none")

\* C2: a task is never started twice; when the destructor of the pool has
\* returned every task that was put in the queue has been run exactly once, to
\* its end; and a worker leaves its loop only with stop_ set and the queue
\* empty.
C2_TasksRunOnceBeforeJoin ==
    /\ [](\A t \in Tasks : runs[t] <= 1 /\ finished[t] <= runs[t])
    /\ [](pd_pc = "done" =>
            \A t \in Tasks : task[t] \in {"pushed", "accepted"} =>
                                runs[t] = 1 /\ finished[t] = 1)
    /\ [][\A w \in Workers :
            (w_pc[w] # "exited" /\ w_pc'[w] = "exited") =>
                (p_stop /\ p_tasks = <<>>)]_vars

\* The destructor has returned after three accepted tasks have run.
C2_Witness ==
    /\ pd_pc = "done"
    /\ \A t \in 1..3 : task[t] = "accepted" /\ finished[t] = 1

\* C5: the batch followed by the queue is a run of consecutive requests in
\* submission order that ends with the last one submitted; while the output is
\* being split, slice i of it is the model's output for the input of the
\* request at position i; and a promise that holds a value holds the model's
\* output for its own request's input.
C5_FifoOwnOutput ==
    LET s == b_batch \o b_queue
        own(r) == Sequential_forward(BatcherModel, req[r].input).t
    IN /\ \A i \in 1..(Len(s) - 1) : s[i + 1] = s[i] + 1
       /\ \A r \in Requests :
             (Queued(r) /\ \A i \in 1..Len(s) : s[i] # r) =>
                \A i \in 1..Len(s) : r < s[i]
       /\ b_pc = "split" =>
             \A i \in 1..Len(b_batch) :
                OutputSlice(b_out, Len(b_batch), i) = own(b_batch[i]).data
       /\ \A r \in Requests :
             promise[r].st = "value" => promise[r].t = own(r)

\* A batch of two requests with different inputs has been stacked, forwarded
\* and split, and both promises hold their values.
C5_Witness ==
    /\ b_pc = "iter_end"
    /\ Len(b_batch) = 2
    /\ req[b_batch[1]].input # req[b_batch[2]].input
    /\ \A i \in 1..2 : promise[b_batch[i]].st = "value"

\* C6: when the consumer is done with a batch in whose processing an exception
\* was raised, the promise of every request of the batch holds the exception.
C6_ExceptionReachesWholeBatch ==
    (b_ex # "none" /\ b_pc \in {"iter_end", "terminated"}) =>
        \A i \in 1..Len(b_batch) : promise[b_batch[i]].st = "exception"

\* C7: every request put in the queue eventually has a result in its promise,
\* whatever max_batch_size is.
C7_AcceptedEventuallyReady ==
    \A r \in Requests : Queued(r) ~> (promise[r].st # "none")

\* The model the handle was built from.
LoadedModel == ModelParser_load(builder.path, disk).layers

\* Thread t is inside the engine, or is reading the engine's input_shape_
\* through the reference it was returned.
Accessing(t) == thread[t].pc \in {"enter", "layer", "finish", "body", "reading"}

\* The call of thread t is over (its outcome is fixed) and it threw.
Failed(t) ==
    /\ thread[t].pc \in {"unlock", "idle"}
    /\ thread[t].out.kind \notin {"none", "value", "reference"}

HasNaN(t) == \E i \in 1..Len(t.data) : t.data[i] = NaN

\* C3: a thread that reads or writes the engine's state (model, buffers,
\* statistics, input shape) holds the handle's mutex.
C3_EngineStateUnderMutex == \A t \in Threads : Accessing(t) => h_mutex = t

\* C4: a predict that returned a tensor returned the output of the model for
\* its own input, whatever the other threads were doing on the same handle.
C4_PredictOwnOutput ==
    \A t \in Threads :
        (thread[t].op = "predict" /\ thread[t].out.kind = "value") =>
            LET r == Sequential_forward(LoadedModel, thread[t].inputs[1])
            IN r.ok /\ thread[t].out.val = r.t

\* One predict has returned its output and the predict of another thread, for
\* another input, has since overwritten the shared output buffer and is about
\* to return too.
C4_Witness ==
    \E t, u \in Threads :
        /\ t # u
        /\ thread[t].pc = "idle" /\ thread[t].op = "predict"
        /\ thread[t].out.kind = "value"
        /\ thread[u].pc = "unlock" /\ thread[u].op = "predict"
        /\ thread[u].out.kind = "value"
        /\ thread[t].out.val # thread[u].out.val
        /\ thread[u].out.val = h_engine.buffers[Len(h_engine.buffers)]

\* C8: when a predict has failed with a translated error, the engine's model,
\* input shape, buffer shapes and statistics are what they were when the
\* predict began; and a predict that succeeds returns the model's output for
\* its input, whatever failed before it.
C8_FailedPredictLeavesEngine ==
    \A t \in Threads :
        LET f == thread[t] IN
        /\ (f.op = "predict" /\ f.pc = "unlock"
            /\ f.out.kind \in {"ValidationException", "InferenceException"}) =>
              /\ h_engine.loaded = f.pre.loaded
              /\ h_engine.model = f.pre.model
              /\ h_engine.input_shape = f.pre.input_shape
              /\ Len(h_engine.buffers) = Len(f.pre.buffers)
              /\ \A i \in 1..Len(h_engine.buffers) :
                    h_engine.buffers[i].shape = f.pre.buffers[i].shape
              /\ h_engine.stats = f.pre.stats
        /\ (f.op = "predict" /\ f.pc = "unlock" /\ f.out.kind = "value") =>
              f.out.val = Sequential_forward(f.pre.model, f.inputs[1]).t

\* C9: a predict or predict_batch that fails throws InferenceException when no
\* model is loaded, ValidationException with SHAPE_MISMATCH when the input's
\* rank or shape is not the expected one, ValidationException with NAN_INPUT
\* when the input holds a NaN, and InferenceException for any other failure.
C9_ErrorsTranslated ==
    \A t \in Threads :
        LET f == thread[t]
            input == f.inputs[f.k]
        IN (Failed(t) /\ f.op \in {"predict", "predict_batch"}) =>
              IF ~f.pre.loaded THEN f.out.kind = "InferenceException"
              ELSE IF input.shape # f.pre.input_shape
              THEN f.out = Thrown("ValidationException", "SHAPE_MISMATCH")
              ELSE IF HasNaN(input)
              THEN f.out = Thrown("ValidationException", "NAN_INPUT")
              ELSE f.out.kind = "InferenceException"

\* C10: a failed build throws ModelLoadException: FILE_NOT_FOUND when the path
\* is empty or cannot be opened, INVALID_FORMAT when the file that was opened
\* has a bad magic, an unsupported version, an unknown tag or is truncated,
\* and EMPTY_MODEL when it holds zero layers.
C10_BuildErrorKinds ==
    LET m == ModelParser_load(builder.path, disk) IN
    h_state = "failed" =>
        /\ h_error.kind = "ModelLoadException"
        /\ (builder.path = "" \/ ~Exists(builder.path)) =>
              h_error.code = "FILE_NOT_FOUND"
        /\ (builder.path # "" /\ Exists(builder.path) /\ ~m.ok
            /\ m.exc = "runtime_error") =>
              h_error.code = "INVALID_FORMAT"
        /\ (builder.path # "" /\ m.ok /\ m.layers = <<>>) =>
              h_error.code = "EMPTY_MODEL"

\* C11: while a thread is inside a call on a or b some thread can take a
\* step (no deadlock), and every call that was made returns, whatever mix of
\* a = std::move(b), b = std::move(a), predict and stats the threads run.
C11_MoveAssignNoDeadlock ==
    /\ []((\E t \in 1..MaxMovers : mv_thread[t].pc # "idle") =>
            ENABLED (\E t \in 1..MaxMovers :
                MV_Lock(t) \/ MV_Body(t) \/ MV_UnlockOther(t) \/ MV_Unlock(t)))
    /\ \A t \in 1..MaxMovers :
            (mv_thread[t].pc # "idle") ~> (mv_thread[t].pc = "idle")

\* One thread holds both mutexes for a = std::move(b) while another waits to
\* do b = std::move(a) and a third waits in predict.
C11_Witness ==
    \E t, u, v \in 1..MaxMovers :
        /\ mv_thread[t].op = "assign" /\ mv_thread[t].pc = "body"
        /\ mv_thread[t].self = 1 /\ mv_thread[t].other = 2
        /\ mv_thread[u].op = "assign" /\ mv_thread[u].pc = "lock"
        /\ mv_thread[u].self = 2 /\ mv_thread[u].other = 1
        /\ mv_thread[v].op = "predict" /\ mv_thread[v].pc = "lock"

\* C12: what stats() returns was read while no other call was inside the
\* engine, and it shows whole predicts only: the per-layer times do not
\* exceed the total time, the mean is the total over the count, and a count
\* of zero comes with every accumulator at zero.
C12_StatsSnapshotWhole ==
    \A t \in Threads :
        (thread[t].op = "stats" /\ thread[t].pc = "unlock") =>
            LET s == thread[t].out.val IN
            /\ \A u \in Threads \ {t} :
                  thread[u].pc \notin {"enter", "layer", "finish", "body", "unlock"}
            /\ s = h_engine.stats
            /\ Sum(s.layer_times_ms) <= s.total_time_ms
            /\ s.min_latency_ms <= s.max_latency_ms
            /\ s.mean_latency_ms =
                  IF s.inference_count = 0 THEN <<0, 1>>
                  ELSE <<s.total_time_ms, s.inference_count>>
            /\ s.inference_count = 0 => s = ZeroStats(Len(s.layer_times_ms))

\* C13: with profiling the engine's inference_count is the number of predict
\* executions that returned their output since the last reset_stats or
\* warm-up, without profiling it is 0; a reset_stats leaves every
\* accumulator, the per-layer ones included, at zero, and so does a build
\* with warm-up runs.
C13_InferenceCount ==
    /\ h_engine.stats.inference_count =
          IF h_engine.profiling THEN h_done ELSE 0
    /\ \A t \in Threads :
          (thread[t].op = "reset_stats" /\ thread[t].pc = "unlock") =>
              h_engine.stats = ZeroStats(Len(h_engine.stats.layer_times_ms))
    /\ (h_state = "built" /\ h_calls = 0) =>
          h_engine.stats = ZeroStats(Len(h_engine.stats.layer_times_ms))

\* C14: a submit that finds stop_ set throws and leaves the queue as it was;
\* once stop_ is set the queue never grows, a rejected task is never run, and
\* when the destructor has joined the workers the queue is empty.
C14_SubmitAfterStopRejected ==
    /\ [][/\ \A t \in Tasks :
               (task[t] = "unsent" /\ task'[t] # "unsent" /\ p_stop) =>
                   (task'[t] = "rejected" /\ p_tasks' = p_tasks)
          /\ p_stop => Len(p_tasks') <= Len(p_tasks)]_vars
    /\ [](\A t \in Tasks : task[t] = "rejected" => runs[t] = 0)
    /\ [](pd_pc = "done" => p_tasks = <<>>)

\* A submit was refused while the destructor was joining, and the pool is
\* gone with every accepted task run.
C14_Witness ==
    /\ pd_pc = "done"
    /\ task[1] = "accepted" /\ finished[1] = 1
    /\ task[2] = "rejected" /\ task[3] = "rejected"

\* C15: tasks leave the queue in the order their submits pushed them: when a
\* worker takes a task, every task submitted before it has been taken; with
\* one worker the tasks also finish in that order, each before the next starts.
C15_FifoDispatch ==
    /\ [][\A t \in Tasks : runs'[t] > runs[t] =>
            \A u \in Tasks : (u < t /\ task[u] \in {"pushed", "accepted"}) =>
                                runs[u] = 1]_vars
    /\ [][\A t \in Tasks : (num_threads = 1 /\ runs'[t] > runs[t]) =>
            \A u \in Tasks : (u < t /\ task[u] \in {"pushed", "accepted"}) =>
                                finished[u] = 1]_vars

\* The single worker runs task 1 while tasks 2 and 3 wait in the queue.
C15_Witness ==
    /\ num_threads = 1
    /\ w_pc[1] = "running" /\ w_task[1] = 1
    /\ p_tasks = <<2, 3>>

\* C16: when the consumer leaves the collecting loop with a batch, no request
\* of the batch was submitted more than max_wait_ms before.
C16_LatencyBounded ==
    b_pc = "collected" =>
        \A i \in 1..Len(b_batch) : now - sub_time[b_batch[i]] <= MaxWaitMs

\* C17: loading the file a model was saved to gives the model back: as many
\* layers, of the same types, with the same configuration fields, weights and
\* bias, the model without layers included.
C17_LoadSaveRoundTrip ==
    io_pc = "loaded" => (io_loaded.ok /\ io_loaded.layers = io_model)

\* A Dense layer without bias, a Conv2D with bias and a pooling layer came
\* back from the file.
C17_Witness ==
    /\ io_pc = "loaded"
    /\ io_loaded.ok
    /\ Len(io_model) = 3
    /\ io_model[1].type = "Dense" /\ io_model[1].cfg[3] = 0
    /\ io_model[2].type = "Conv2D" /\ io_model[2].cfg[8] = 1
    /\ io_model[3].type = "MaxPool2D"

\* C18: ModelParser::load of a file with a wrong magic, a version above 2, a
\* layer tag outside 1..9, or cut short anywhere, throws and returns no model.
C18_MalformedFileRejected ==
    io_pc = "loaded_damaged" => ~io_loaded.ok

\* The load of a file cut in the middle of a Dense layer's weights failed.
C18_Witness ==
    /\ io_pc = "loaded_damaged"
    /\ ~io_loaded.ok
    /\ Len(io_model) = 2 /\ io_model[2].type = "Dense" /\ io_model[2].cfg[1] = 2
    /\ Len(io_file) = Len(ModelSerializer_save(io_model).file) - 1

\* C20: apply_fusion replaces each Dense layer that is directly followed by a
\* ReLU (Sigmoid) layer, and nothing else, by one FusedDenseReLU
\* (FusedDenseSigmoid) layer with the Dense layer's parameters: putting the
\* pairs back gives the model it was given, layer for layer; no Dense layer
\* of the result is followed by ReLU or Sigmoid; the result has as many
\* layers as the model less the number of fused pairs.
C20_FusionGreedy ==
    io_pc = "fused" =>
        LET fusedAt == {k \in 1..Len(io_fused) :
                          io_fused[k].type \in {"FusedDenseReLU", "FusedDenseSigmoid"}}
            Unfused(l) ==
                IF l.type = "FusedDenseReLU"
                THEN <<[l EXCEPT !.type = "Dense"], Plain("ReLU")>>
                ELSE IF l.type = "FusedDenseSigmoid"
                THEN <<[l EXCEPT !.type = "Dense"], Plain("Sigmoid")>>
                ELSE <<l>>
        IN /\ Concat([k \in 1..Len(io_fused) |-> Unfused(io_fused[k])]) = io_model
           /\ \A k \in 1..(Len(io_fused) - 1) :
                 ~(io_fused[k].type = "Dense"
                   /\ io_fused[k + 1].type \in {"ReLU", "Sigmoid"})
           /\ Len(io_fused) = Len(io_model) - Cardinality(fusedAt)

\* Dense, ReLU, Sigmoid became FusedDenseReLU, Sigmoid: the scan went on
\* behind the pair and left the second activation alone.
C20_Witness ==
    /\ io_pc = "fused"
    /\ Len(io_model) = 3
    /\ io_model[1].type = "Dense" /\ io_model[2].type = "ReLU"
    /\ io_model[3].type = "Sigmoid"
    /\ Len(io_fused) = 2
    /\ io_fused[1].type = "FusedDenseReLU" /\ io_fused[1].w = io_model[1].w
    /\ io_fused[2].type = "Sigmoid"

\* C19: the layers of an engine that was built fit one another: when predict
\* has accepted its input, every layer accepts the tensor it is given, the
\* input for the first layer and the buffer of the layer before it for the
\* others.
C19_LayersFitAfterLoad ==
    \A t \in Threads :
        thread[t].pc = "layer" =>
            Layer_forward(h_engine.model[thread[t].i],
                          LayerInput(h_engine.buffers,
                                     thread[t].inputs[thread[t].k],
                                     thread[t].i)).ok

\* C21: on a handle, titaninfer_last_error gives a message, never an empty
\* one, exactly when the latest titaninfer_predict on it returned a status
\* other than TITANINFER_OK; it gives NULL before any call and after a
\* predict that returned TITANINFER_OK.
C21_LastErrorTracksStatus ==
    capi.loaded = "handle" =>
        /\ titaninfer_last_error # ""
        /\ (titaninfer_last_error # "NULL") <=> (capi.status \notin {"none", "OK"})

\* Two failed predicts, then one that returned TITANINFER_OK.
C21_Witness ==
    /\ capi.loaded = "handle"
    /\ capi.calls = 3 /\ capi.ok = 1 /\ capi.status = "OK"
    /\ titaninfer_last_error = "NULL"

\* C22: on a handle from titaninfer_load, titaninfer_inference_count is the
\* number of titaninfer_predict calls that returned TITANINFER_OK.
C22_CountIsSuccessfulPredicts ==
    capi.loaded = "handle" => titaninfer_inference_count = capi.ok

\* C23: in SAME mode Conv2DLayer::output_shape reports, for each spatial
\* dimension, ceil(input / stride), and that is what conv_output_size gives
\* with the padding of compute_same_padding, for every input size, kernel
\* size and stride of at least 1.
C23_SamePaddingKeepsCeil ==
    (conv # <<>> /\ conv.padding = "SAME" /\ Len(conv.input_shape) \in {3, 4}) =>
        LET n == Len(conv.input_shape)
            Ceil(d) == (conv.input_shape[n - 2 + d] + conv.stride[d] - 1)
                          \div conv.stride[d]
            Same(d) == conv_output_size(conv.input_shape[n - 2 + d],
                           conv.kernel[d], conv.stride[d],
                           compute_same_padding(conv.input_shape[n - 2 + d],
                                                conv.kernel[d], conv.stride[d]))
        IN /\ conv.out.ok
           /\ \A d \in 1..2 :
                 /\ Same(d) = [ok |-> TRUE, size |-> Ceil(d)]
                 /\ conv.out.shape[n - 2 + d] = Ceil(d)

\* C24: every live tensor, a moved-from one included, has size_ equal to the
\* product of shape_ (0 for the empty shape of the empty tensor), data_ null
\* exactly when size_ is 0 and otherwise the address of 32-byte aligned
\* storage that is allocated and its own; a moved-from tensor is (nullptr, 0,
\* empty shape); and no destruction or assignment frees storage that is not
\* allocated.
C24_TensorInvariants ==
    /\ ~tensors.fault
    /\ \A i \in 1..MaxTensors :
         LET t == tensors.obj[i]
         IN t.live =>
              /\ t.size_ = IF t.shape_ = <<>> THEN 0 ELSE Prod(t.shape_)
              /\ (t.data_ = 0) <=> (t.size_ = 0)
              /\ t.data_ # 0 =>
                    /\ t.data_ % ALIGNMENT = 0
                    /\ t.data_ \in tensors.heap
                    /\ \A j \in 1..MaxTensors \ {i} :
                          tensors.obj[j].live => tensors.obj[j].data_ # t.data_
              /\ t.moved => t.data_ = 0 /\ t.size_ = 0 /\ t.shape_ = <<>>

C26_AllOperationsGuarded == logger.unguarded = {}

C28_BatchWithinBounds ==
    [][ /\ b_pc' = "process" =>
              (Len(b_batch') >= 1 /\ Len(b_batch') <= max_batch_size')
        /\ (b_pc = "process" /\ Len(b_batch) = 1
              /\ promise'[b_batch[1]].st = "value") =>
              promise'[b_batch[1]].t =
                 Sequential_forward(BatcherModel, req[b_batch[1]].input).t
      ]_vars

\* With room for two requests the consumer timed out with one and answered
\* it with a tensor of the model's 1-D output shape.
C28_Witness ==
    /\ max_batch_size = 2
    /\ b_pc = "iter_end"
    /\ Len(b_batch) = 1
    /\ promise[b_batch[1]].st = "value"
    /\ promise[b_batch[1]].t.shape = <<2>>

\* C29: the consumer calls set_value or set_exception only on a promise that
\* holds no result yet: not in the forward of a single request, not in the
\* split loop, and not in the catch loop that follows an error raised after
\* some results of the batch were delivered.
C29_PromiseSetOnce ==
    /\ b_pc \in {"split", "catch"} => promise[b_batch[b_i]].st = "none"
    /\ b_pc = "process" =>
          \A i \in 1..Len(b_batch) : promise[b_batch[i]].st = "none"
    /\ b_pc # "terminated"

\* C30: when the consumer is about to stack a batch of two or more requests,
\* each request's input holds at least product(input_shape) elements, the
\* number the copy into the stacked tensor reads, whatever tensors were
\* submitted; and when it splits the batched output, the N slices of
\* size(batched_output) / N elements fit the per-sample result tensor and
\* lie within the batched output.
C30_CopiesStayInside ==
    LET N == Len(b_batch)
    IN /\ (b_pc = "process" /\ N >= 2) =>
             \A i \in 1..N :
                Len(req[b_batch[i]].input.data) >= Prod(BatcherInputShape)
       /\ b_pc = "split" =>
             /\ Len(b_out.data) \div N <= Prod(Tail(b_out.shape))
             /\ N * (Len(b_out.data) \div N) <= Len(b_out.data)
====
